---- MODULE Spec2Model ----
(***************************************************************************)
(* Outline parser, slide projection and title-keyed artifact correlation   *)
(* of the course generator (a05_CREATE_POWERPOINT.py and its helpers).     *)
(*                                                                         *)
(* Python strings are sequences of one-character strings, so that strip,   *)
(* split, count, rstrip, isdigit, startswith and the f-string title        *)
(* formats are computed as the code computes them.  A Python dict is a     *)
(* sequence of [key, val] entries in insertion order; assigning to an      *)
(* existing key replaces the value in place.  None is the empty sequence   *)
(* (every cursor is only ever tested with "not x").                        *)
(***************************************************************************)
EXTENDS Integers, Sequences, FiniteSets, TLC

\* ------------------------------------------------------------------ bounds
MaxLines == 4
MaxCap == 4

\* ------------------------------------------------------- string primitives
None == <<>>

Digits == {"0", "1", "2", "3", "4", "5", "6", "7", "8", "9"}

RECURSIVE LStrip(_)
LStrip(s) == IF s # <<>> /\ Head(s) = " " THEN LStrip(Tail(s)) ELSE s

RECURSIVE RStrip(_)
RStrip(s) ==
    IF s # <<>> /\ s[Len(s)] = " " THEN RStrip(SubSeq(s, 1, Len(s) - 1)) ELSE s

\* str.strip()
Strip(s) == RStrip(LStrip(s))

\* str.rstrip('.')
RECURSIVE RStripDot(_)
RStripDot(s) ==
    IF s # <<>> /\ s[Len(s)] = "." THEN RStripDot(SubSeq(s, 1, Len(s) - 1)) ELSE s

\* str.count(c)
Count(s, c) == Cardinality({i \in 1..Len(s) : s[i] = c})

\* str.isdigit()
IsDigit(s) == s # <<>> /\ \A i \in 1..Len(s) : s[i] \in Digits

\* str.startswith(p)
StartsWith(s, p) == Len(s) >= Len(p) /\ SubSeq(s, 1, Len(p)) = p

\* str.find(c) for a one-character c, 0 when absent (1-based otherwise)
Find(s, c) ==
    IF \E i \in 1..Len(s) : s[i] = c
    THEN CHOOSE i \in 1..Len(s) : s[i] = c /\ \A j \in 1..(i - 1) : s[j] # c
    ELSE 0

\* str.split(c, 1): one or two parts
Split1(s, c) ==
    LET i == Find(s, c)
    IN  IF i = 0 THEN <<s>>
        ELSE <<SubSeq(s, 1, i - 1), SubSeq(s, i + 1, Len(s))>>

\* str.split(c)[0]
SplitHead(s, c) == Split1(s, c)[1]

\* str.split(): the whitespace-separated words
RECURSIVE Words(_)
Words(s) ==
    LET t == LStrip(s)
        i == Find(t, " ")
    IN  IF t = <<>> THEN <<>>
        ELSE IF i = 0 THEN <<t>>
        ELSE <<SubSeq(t, 1, i - 1)>> \o Words(SubSeq(t, i + 1, Len(t)))

\* ------------------------------------------------------------ ordered dict
HasKey(d, k) == \E i \in 1..Len(d) : d[i].key = k

KeyIndex(d, k) == CHOOSE i \in 1..Len(d) : d[i].key = k

\* d[k]
Get(d, k) == d[KeyIndex(d, k)].val

\* d[k] = v
Put(d, k, v) ==
    IF HasKey(d, k)
    THEN [d EXCEPT ![KeyIndex(d, k)] = [key |-> k, val |-> v]]
    ELSE Append(d, [key |-> k, val |-> v])

Keys(d) == [i \in 1..Len(d) |-> d[i].key]

\* --------------------------------------------------------------- constants
DEFAULT_TITLE == <<"C","o","u","r","s","e"," ","P","r","e","s","e","n","t","a","t","i","o","n">>
MODULE_PREFIX == <<"M","o","d","u","l","e"," ">>
TOPIC_PREFIX == <<"T","o","p","i","c"," ">>
SUBTOPIC_PREFIX == <<"S","u","b","t","o","p","i","c"," ">>
MAIN_MODULE == <<"M","a","i","n"," ","M","o","d","u","l","e">>
MAIN_TOPIC == <<"M","a","i","n"," ","T","o","p","i","c">>
DEFAULT_MODULE_KEY == <<"M","o","d","u","l","e"," ","1">>

\* ------------------------------------------------------------ parse_outline
\* The title step: the first line of the file is the title unless it starts
\* with "1.".
title_step(ls) ==
    IF ls # <<>> /\ ~StartsWith(Strip(ls[1]), <<"1", ".">>)
    THEN [course_title |-> Strip(ls[1]), lines |-> Tail(ls)]
    ELSE [course_title |-> DEFAULT_TITLE, lines |-> ls]

NewModule(title_part) == [title |-> Strip(title_part), topics |-> <<>>]
NewTopic(title_part) == [title |-> Strip(title_part), subtopics |-> <<>>]
NewSubtopic(title_part) == [title |-> Strip(title_part), points |-> <<>>]

\* outline[cm]["topics"][ct] = v
PutTopic(o, cm, ct, v) ==
    LET m == Get(o, cm)
    IN  Put(o, cm, [m EXCEPT !.topics = Put(m.topics, ct, v)])

\* outline[cm]["topics"][ct]["subtopics"][cs] = v
PutSubtopic(o, cm, ct, cs, v) ==
    LET t == Get(Get(o, cm).topics, ct)
    IN  PutTopic(o, cm, ct, [t EXCEPT !.subtopics = Put(t.subtopics, cs, v)])

\* outline[cm]["topics"][ct]["subtopics"][cs]["points"].append(p)
AppendPoint(o, cm, ct, cs, p) ==
    LET s == Get(Get(Get(o, cm).topics, ct).subtopics, cs)
    IN  PutSubtopic(o, cm, ct, cs, [s EXCEPT !.points = Append(s.points, p)])

\* A module branch that leaves the subtopic cursor as it is.
module_branch_keeps_subtopic(st, number_part, title_part) ==
    LET cm == MODULE_PREFIX \o number_part
    IN  [outline |-> Put(st.outline, cm, NewModule(title_part)),
         current_module |-> cm,
         current_topic |-> None,
         current_subtopic |-> st.current_subtopic]

\* The module branch of the classifier.
module_branch(st, number_part, title_part) ==
    LET cm == MODULE_PREFIX \o number_part
    IN  [outline |-> Put(st.outline, cm, NewModule(title_part)),
         current_module |-> cm,
         current_topic |-> None,
         current_subtopic |-> None]

\* A topic branch whose placeholder module takes the topic's own first number.
topic_branch_numbered_module(st, number_part, title_part) ==
    LET cm == IF st.current_module = None
              THEN MODULE_PREFIX \o SplitHead(number_part, ".")
              ELSE st.current_module
        o1 == IF st.current_module = None
              THEN Put(st.outline, cm, [title |-> MAIN_MODULE, topics |-> <<>>])
              ELSE st.outline
        ct == TOPIC_PREFIX \o number_part
    IN  [outline |-> PutTopic(o1, cm, ct, NewTopic(title_part)),
         current_module |-> cm,
         current_topic |-> ct,
         current_subtopic |-> None]

\* The topic branch, placeholder module included.
topic_branch(st, number_part, title_part) ==
    LET cm == IF st.current_module = None THEN DEFAULT_MODULE_KEY
              ELSE st.current_module
        o1 == IF st.current_module = None
              THEN Put(st.outline, cm, [title |-> MAIN_MODULE, topics |-> <<>>])
              ELSE st.outline
        ct == TOPIC_PREFIX \o number_part
    IN  [outline |-> PutTopic(o1, cm, ct, NewTopic(title_part)),
         current_module |-> cm,
         current_topic |-> ct,
         current_subtopic |-> None]

\* A subtopic branch whose placeholder topic has a constant number.
subtopic_branch_constant_topic(st, number_part, title_part) ==
    LET cm == IF st.current_module = None THEN DEFAULT_MODULE_KEY
              ELSE st.current_module
        o1 == IF st.current_module = None
              THEN Put(st.outline, cm, [title |-> MAIN_MODULE, topics |-> <<>>])
              ELSE st.outline
        ct == IF st.current_topic = None
              THEN TOPIC_PREFIX \o <<"1", ".", "1">>
              ELSE st.current_topic
        o2 == IF st.current_topic = None
              THEN PutTopic(o1, cm, ct, [title |-> MAIN_TOPIC, subtopics |-> <<>>])
              ELSE o1
        cs == SUBTOPIC_PREFIX \o number_part
    IN  [outline |-> PutSubtopic(o2, cm, ct, cs, NewSubtopic(title_part)),
         current_module |-> cm,
         current_topic |-> ct,
         current_subtopic |-> cs]

\* The subtopic branch, placeholder module and topic included.
subtopic_branch(st, number_part, title_part) ==
    LET cm == IF st.current_module = None THEN DEFAULT_MODULE_KEY
              ELSE st.current_module
        o1 == IF st.current_module = None
              THEN Put(st.outline, cm, [title |-> MAIN_MODULE, topics |-> <<>>])
              ELSE st.outline
        ct == IF st.current_topic = None
              THEN TOPIC_PREFIX \o SplitHead(number_part, ".") \o <<".", "1">>
              ELSE st.current_topic
        o2 == IF st.current_topic = None
              THEN PutTopic(o1, cm, ct, [title |-> MAIN_TOPIC, subtopics |-> <<>>])
              ELSE o1
        cs == SUBTOPIC_PREFIX \o number_part
    IN  [outline |-> PutSubtopic(o2, cm, ct, cs, NewSubtopic(title_part)),
         current_module |-> cm,
         current_topic |-> ct,
         current_subtopic |-> cs]

\* A point branch that makes up the missing parents of a point.
point_branch_with_placeholders(st, title_part) ==
    IF st.current_module = None \/ st.current_topic = None
       \/ st.current_subtopic = None
    THEN LET p == subtopic_branch(st, <<"1", ".", "1", ".", "1">>, MAIN_TOPIC)
         IN  [p EXCEPT !.outline =
                 AppendPoint(p.outline, p.current_module, p.current_topic,
                             p.current_subtopic, Strip(title_part))]
    ELSE [st EXCEPT !.outline =
             AppendPoint(st.outline, st.current_module, st.current_topic,
                         st.current_subtopic, Strip(title_part))]

\* The point branch: stored only under a complete cursor chain.
point_branch(st, title_part) ==
    IF st.current_module = None \/ st.current_topic = None
       \/ st.current_subtopic = None
    THEN st
    ELSE [st EXCEPT !.outline =
             AppendPoint(st.outline, st.current_module, st.current_topic,
                         st.current_subtopic, Strip(title_part))]

\* Number of dots the classifier sees: counted before the trailing dots are
\* removed from the token.
num_dots_of(token) == Count(token, ".")

\* The classification of one token/title pair.
classify(st, token, title_part) ==
    LET num_dots == num_dots_of(token)
        number_part == RStripDot(token)
    IN  IF num_dots = 0 /\ IsDigit(number_part)
        THEN module_branch(st, number_part, title_part)
        ELSE IF num_dots = 1 THEN topic_branch(st, number_part, title_part)
        ELSE IF num_dots = 2 THEN subtopic_branch(st, number_part, title_part)
        ELSE IF num_dots = 3 THEN point_branch(st, title_part)
        ELSE IF num_dots = 0 /\ IsDigit(number_part)
        THEN module_branch(st, number_part, title_part)
        ELSE st

\* The body of the loop over the lines: one line, one new parser state.
line_step(st, raw) ==
    LET line == Strip(raw)
        parts == Split1(line, " ")
    IN  IF line = <<>> THEN st
        ELSE IF Len(parts) < 2 THEN st
        ELSE classify(st, parts[1], parts[2])

EmptyState ==
    [outline |-> <<>>, current_module |-> None, current_topic |-> None,
     current_subtopic |-> None]

RECURSIVE parse_lines(_, _)
parse_lines(st, ls) ==
    IF ls = <<>> THEN st ELSE parse_lines(line_step(st, Head(ls)), Tail(ls))

\* parse_outline(file) -> (outline, course_title)
parse_outline(file) ==
    LET t == title_step(file)
    IN  [outline |-> parse_lines(EmptyState, t.lines).outline,
         course_title |-> t.course_title]

\* ------------------------------------------------------ prepare_slides_data
TitlesOf(d) == [i \in 1..Len(d) |-> d[i].val.title]

\* A module slide that lists the first topic only.
module_slide_first_topic(m) ==
    [title |-> m.key \o <<":", " ">> \o m.val.title,
     content |-> SubSeq(TitlesOf(m.val.topics), 1, 1),
     color |-> "module_title",
     type |-> "module"]

module_slide(m) ==
    [title |-> m.key \o <<":", " ">> \o m.val.title,
     content |-> TitlesOf(m.val.topics),
     color |-> "module_title",
     type |-> "module"]

\* A topic slide titled with the whole key of the topic.
topic_slide_with_key(t) ==
    [title |-> t.key \o <<":", " ">> \o t.val.title,
     content |-> TitlesOf(t.val.subtopics),
     color |-> "topic_title",
     type |-> "topic"]

\* topic_number is topic.split()[1]
topic_slide(t) ==
    [title |-> Words(t.key)[2] \o <<":", " ">> \o t.val.title,
     content |-> TitlesOf(t.val.subtopics),
     color |-> "topic_title",
     type |-> "topic"]

subtopic_slide(s) ==
    [title |-> s.val.title,
     content |-> s.val.points,
     color |-> "subtopic_title",
     type |-> "subtopic"]

\* A cap that lets one slide too many through.
CapReached_late(slides, max) == Len(slides) > max

\* "if len(slides_data) >= max_slides: break"
CapReached(slides, max) == Len(slides) >= max

\* The loop over the subtopics of one topic, from index i on.
RECURSIVE subtopic_loop(_, _, _, _)
subtopic_loop(subs, i, slides, max) ==
    IF i > Len(subs) THEN slides
    ELSE IF CapReached(slides, max) THEN slides
    ELSE LET s1 == Append(slides, subtopic_slide(subs[i]))
         IN  IF CapReached(s1, max) THEN s1
             ELSE subtopic_loop(subs, i + 1, s1, max)

\* The loop over the topics of one module, from index i on.  topic_parts[1]
\* raises IndexError when the key has no number after "Topic".
RECURSIVE topic_loop(_, _, _, _)
topic_loop(topics, i, acc, max) ==
    IF i > Len(topics) THEN acc
    ELSE IF CapReached(acc.slides, max) THEN acc
    ELSE IF Len(Words(topics[i].key)) < 2 THEN [acc EXCEPT !.raised = TRUE]
    ELSE LET s1 == Append(acc.slides, topic_slide(topics[i]))
         IN  IF CapReached(s1, max) THEN [acc EXCEPT !.slides = s1]
             ELSE topic_loop(topics, i + 1,
                     [acc EXCEPT !.slides =
                         subtopic_loop(topics[i].val.subtopics, 1, s1, max)],
                     max)

\* No module is passed over.
SkipModule_never(m) == FALSE

\* A module without topics gets no slide.
SkipModule(m) == m.val.topics = <<>>

\* The loop over the modules, from index i on.
RECURSIVE module_loop(_, _, _, _)
module_loop(o, i, acc, max) ==
    IF i > Len(o) THEN acc
    ELSE IF SkipModule(o[i]) THEN module_loop(o, i + 1, acc, max)
    ELSE LET s1 == Append(acc.slides, module_slide(o[i]))
         IN  IF CapReached(s1, max) THEN [acc EXCEPT !.slides = s1]
             ELSE LET r == topic_loop(o[i].val.topics, 1,
                                      [acc EXCEPT !.slides = s1], max)
                  IN  IF r.raised THEN r
                      ELSE IF CapReached(r.slides, max) THEN r
                      ELSE module_loop(o, i + 1, r, max)

\* prepare_slides_data(outline_data, max_slides); raised stands for the
\* IndexError that leaves the function without a result.
prepare_slides_data(outline_data, max) ==
    module_loop(outline_data, 1, [slides |-> <<>>, raised |-> FALSE], max)

\* ------------------------------------------------ more string primitives
Letters ==
    {"a","b","c","d","e","f","g","h","i","j","k","l","m","n","o","p","q","r",
     "s","t","u","v","w","x","y","z","A","B","C","D","E","F","G","H","I","J",
     "K","L","M","N","O","P","Q","R","S","T","U","V","W","X","Y","Z"}

\* sep.join(parts)
RECURSIVE Join(_, _)
Join(parts, sep) ==
    IF parts = <<>> THEN <<>>
    ELSE IF Len(parts) = 1 THEN parts[1]
    ELSE parts[1] \o sep \o Join(Tail(parts), sep)

DigitChar(d) ==
    CASE d = 0 -> "0" [] d = 1 -> "1" [] d = 2 -> "2" [] d = 3 -> "3"
      [] d = 4 -> "4" [] d = 5 -> "5" [] d = 6 -> "6" [] d = 7 -> "7"
      [] d = 8 -> "8" [] d = 9 -> "9"

\* str(n) for n >= 0
RECURSIVE Decimal(_)
Decimal(n) ==
    IF n < 10 THEN <<DigitChar(n)>>
    ELSE Decimal(n \div 10) \o <<DigitChar(n % 10)>>

\* f"{n:0wd}"
RECURSIVE ZeroPad(_, _)
ZeroPad(n, w) ==
    LET d == Decimal(n)
    IN  IF Len(d) >= w THEN d
        ELSE [i \in 1..w |-> IF i <= w - Len(d) THEN "0" ELSE d[i - (w - Len(d))]]

\* list.index(x): the first position holding a value equal to x
IndexOf(q, x) ==
    CHOOSE i \in 1..Len(q) : q[i] = x /\ \A j \in 1..(i - 1) : q[j] # x

\* ------------------------------------ generate_slides_info_from_outline
COURSE_KEY_PREFIX == <<"C","o","u","r","s","e",":"," ">>
WELCOME_PREFIX ==
    <<"W","e","l","c","o","m","e"," ","t","o"," ","t","h","i","s"," ",
      "c","o","m","p","r","e","h","e","n","s","i","v","e"," ",
      "c","o","u","r","s","e"," ","o","n"," ">>

\* str.replace(a, b) for one-character a and b
ReplaceChar(s, a, b) == [i \in 1..Len(s) |-> IF s[i] = a THEN b ELSE s[i]]

\* os.path.basename(CURRENT_DIR).replace('_', ' '); dir is the list of the
\* path's parts, empty when there is no current directory
course_name_of(dir) == ReplaceChar(dir[Len(dir)], "_", " ")

info_title_entry(dir) ==
    IF dir = <<>> THEN <<>>
    ELSE <<[title |-> COURSE_KEY_PREFIX \o course_name_of(dir),
            content |-> WELCOME_PREFIX \o course_name_of(dir),
            type |-> "title"]>>

\* module_number is module.split()[1]
info_module(m) ==
    [title |-> Words(m.key)[2] \o <<":", " ">> \o m.val.title,
     content |-> Join(TitlesOf(m.val.topics), <<"\n">>),
     type |-> "module"]

info_topic(t) ==
    [title |-> Words(t.key)[2] \o <<":", " ">> \o t.val.title,
     content |-> Join(TitlesOf(t.val.subtopics), <<"\n">>),
     type |-> "topic"]

info_subtopic(s) ==
    [title |-> s.val.title,
     content |-> Join(s.val.points, <<"\n">>),
     type |-> "subtopic"]

info_subtopics(subs) == [i \in 1..Len(subs) |-> info_subtopic(subs[i])]

RECURSIVE info_topics(_, _, _)
info_topics(topics, i, acc) ==
    IF i > Len(topics) THEN acc
    ELSE IF Len(Words(topics[i].key)) < 2 THEN [acc EXCEPT !.raised = TRUE]
    ELSE info_topics(topics, i + 1,
            [acc EXCEPT !.info = acc.info \o <<info_topic(topics[i])>>
                                 \o info_subtopics(topics[i].val.subtopics)])

RECURSIVE info_modules(_, _, _)
info_modules(o, i, acc) ==
    IF i > Len(o) THEN acc
    ELSE LET r == info_topics(o[i].val.topics, 1,
                     [acc EXCEPT !.info = Append(acc.info, info_module(o[i]))])
         IN  IF r.raised THEN r ELSE info_modules(o, i + 1, r)

\* generate_slides_info_from_outline(outline_data); raised stands for the
\* IndexError of topic_parts[1].
generate_slides_info_from_outline(outline_data, dir) ==
    info_modules(outline_data, 1,
                 [info |-> info_title_entry(dir), raised |-> FALSE])

\* ------------------------------------- generate_snapshots_for_presentation
SNAPSHOT_INFIX == <<"_","s","n","a","p","s","h","o","t","_">>
PNG == <<".","p","n","g">>
TITLE_SNAPSHOT ==
    <<"0","0","_","s","n","a","p","s","h","o","t","_","t","i","t","l","e",
      "_","s","l","i","d","e",".","p","n","g">>

\* "".join(c if c.isalnum() else "_" for c in title)
safe_title(title) ==
    [i \in 1..Len(title) |->
        IF title[i] \in Letters \cup Digits THEN title[i] ELSE "_"]

\* all_slides_data of main(): title and content only
all_slides_data(slides) ==
    [i \in 1..Len(slides) |->
        [title |-> slides[i].title, content |-> slides[i].content]]

snapshot_filename(slides, i) ==
    ZeroPad(IndexOf(slides, slides[i]), 3) \o SNAPSHOT_INFIX
        \o safe_title(slides[i].title) \o PNG

\* The loop over the slides; ok is the set of positions whose snapshot
\* create_slide_snapshot produced.
RECURSIVE snapshot_loop(_, _, _, _)
snapshot_loop(slides, i, paths, ok) ==
    IF i > Len(slides) THEN paths
    ELSE snapshot_loop(slides, i + 1,
            IF i \in ok
            THEN Put(paths, slides[i].title, snapshot_filename(slides, i))
            ELSE paths,
            ok)

\* generate_snapshots_for_presentation; 0 \in ok: the title snapshot was
\* written.
generate_snapshots_for_presentation(slides, title, ok) ==
    snapshot_loop(slides, 1,
        IF 0 \in ok /\ title # <<>> THEN Put(<<>>, title, TITLE_SNAPSHOT) ELSE <<>>,
        ok)

\* The files the same run leaves in the snapshot directory.
snapshot_files(slides, title, ok) ==
    (IF 0 \in ok /\ title # <<>> THEN {TITLE_SNAPSHOT} ELSE {})
        \cup {snapshot_filename(slides, i) : i \in ok \cap (1..Len(slides))}

\* -------------------------------------------------------- generate_markdown
md_image(paths, slide_title, alt) ==
    IF paths # <<>> /\ HasKey(paths, slide_title)
    THEN <<[kind |-> "image", text |-> alt, path |-> Get(paths, slide_title)]>>
    ELSE <<>>

md_heading(level, text) == <<[kind |-> level, text |-> text, path |-> None]>>

\* The key under which generate_markdown looks up a module's snapshot.
md_module_key(m) == MODULE_PREFIX \o m.key \o <<":", " ">> \o m.val.title

\* The key under which generate_markdown looks up a topic's snapshot.
md_topic_key(t) == t.key \o <<":", " ">> \o t.val.title

md_subtopic_key(s) == s.val.title

md_points(points) ==
    [i \in 1..Len(points) |-> [kind |-> "point", text |-> points[i], path |-> None]]

RECURSIVE md_subtopics(_, _, _)
md_subtopics(subs, i, paths) ==
    IF i > Len(subs) THEN <<>>
    ELSE md_heading("h4", subs[i].val.title)
         \o md_image(paths, md_subtopic_key(subs[i]), subs[i].val.title)
         \o md_points(subs[i].val.points)
         \o md_subtopics(subs, i + 1, paths)

RECURSIVE md_topics(_, _, _)
md_topics(topics, i, paths) ==
    IF i > Len(topics) THEN <<>>
    ELSE md_heading("h3", topics[i].val.title)
         \o md_image(paths, md_topic_key(topics[i]), topics[i].val.title)
         \o md_subtopics(topics[i].val.subtopics, 1, paths)
         \o md_topics(topics, i + 1, paths)

RECURSIVE md_modules(_, _, _)
md_modules(o, i, paths) ==
    IF i > Len(o) THEN <<>>
    ELSE md_heading("h2", o[i].val.title)
         \o md_image(paths, md_module_key(o[i]), o[i].val.title)
         \o md_topics(o[i].val.topics, 1, paths)
         \o md_modules(o, i + 1, paths)

\* generate_markdown(outline_data, ..., image_paths_by_title): the lines
\* after the title block.
generate_markdown(outline_data, paths) == md_modules(outline_data, 1, paths)

\* ----------------------------------------- string primitives of the notes
UPPER == <<"A","B","C","D","E","F","G","H","I","J","K","L","M","N","O","P",
           "Q","R","S","T","U","V","W","X","Y","Z">>
LOWER == <<"a","b","c","d","e","f","g","h","i","j","k","l","m","n","o","p",
           "q","r","s","t","u","v","w","x","y","z">>

LowerChar(c) ==
    IF \E i \in 1..26 : UPPER[i] = c
    THEN LOWER[CHOOSE i \in 1..26 : UPPER[i] = c]
    ELSE c

\* str.lower()
Lower(s) == [i \in 1..Len(s) |-> LowerChar(s[i])]

\* pat in s
Contains(s, pat) ==
    \E i \in 1..(Len(s) - Len(pat) + 1) : SubSeq(s, i, i + Len(pat) - 1) = pat

\* str.replace(pat, "")
RECURSIVE Remove(_, _)
Remove(s, pat) ==
    IF s = <<>> THEN <<>>
    ELSE IF StartsWith(s, pat) THEN Remove(SubSeq(s, Len(pat) + 1, Len(s)), pat)
    ELSE <<Head(s)>> \o Remove(Tail(s), pat)

\* str.split(c)[1], for a string that contains c
SplitSecond(s, c) == SplitHead(Split1(s, c)[2], c)

\* ------------------------------------------------------- create_title_slide
SUBTITLE_TEXT ==
    <<"G","e","n","e","r","a","t","e","d"," ","C","o","u","r","s","e"," ",
      "P","r","e","s","e","n","t","a","t","i","o","n">>
CISCO_KEY ==
    <<"C","o","u","r","s","e",":"," ","C","i","s","c","o"," ","A","I"," ",
      "D","e","f","e","n","s","e">>
TITLE_KEY_PREFIX == <<"T","i","t","l","e",":"," ">>
TITLE_SLIDE_KEY == <<"T","i","t","l","e"," ","S","l","i","d","e">>
FUNDAMENTALS == <<" ","F","u","n","d","a","m","e","n","t","a","l","s">>
WELCOME_HEAD ==
    <<"W","e","l","c","o","m","e"," ","t","o"," ","t","h","e"," ",
      "c","o","u","r","s","e",":"," ">>

\* The synthesized welcome notes (first sentence; the rest of the template
\* repeats the course name in fixed text).
welcome_notes(course_name) == WELCOME_HEAD \o course_name \o <<".">>

course_variants(course_name) ==
    LET base_name == Remove(course_name, FUNDAMENTALS)
    IN  <<course_name, COURSE_KEY_PREFIX \o course_name, CISCO_KEY,
          TITLE_KEY_PREFIX \o course_name, TITLE_SLIDE_KEY>>
        \o (IF base_name # course_name
            THEN <<base_name, COURSE_KEY_PREFIX \o base_name>> ELSE <<>>)

\* "for key in keys: if key in notes: ... break": the first listed key that
\* the map holds, 0 when none
FirstHit(keys, notes) ==
    IF \E i \in 1..Len(keys) : HasKey(notes, keys[i])
    THEN CHOOSE i \in 1..Len(keys) :
            HasKey(notes, keys[i]) /\ \A j \in 1..(i - 1) : ~HasKey(notes, keys[j])
    ELSE 0

looks_like_title(key) ==
    StartsWith(Lower(key), <<"c","o","u","r","s","e",":">>)
        \/ Contains(Lower(key), <<"t","i","t","l","e">>)

FirstTitleLike(notes) ==
    IF \E i \in 1..Len(notes) : looks_like_title(notes[i].key)
    THEN CHOOSE i \in 1..Len(notes) :
            looks_like_title(notes[i].key)
                /\ \A j \in 1..(i - 1) : ~looks_like_title(notes[j].key)
    ELSE 0

\* The notes create_title_slide gives the title slide.
title_slide_notes(course_name, notes) ==
    LET variants == course_variants(course_name)
        hit == FirstHit(variants, notes)
        like == FirstTitleLike(notes)
    IN  IF notes = <<>> THEN welcome_notes(course_name)
        ELSE IF hit # 0 THEN Get(notes, variants[hit])
        ELSE IF like # 0 THEN notes[like].val
        ELSE welcome_notes(course_name)

\* A slide of the deck: its text shapes in order (the title shape first) and
\* its notes, <<>> while the slide has no notes, <<text>> once set.
create_title_slide(title_text, notes) ==
    [texts |-> <<title_text, SUBTITLE_TEXT>>,
     notes |-> <<title_slide_notes(title_text, notes)>>]

\* ----------------------------------------------------- create_content_slide
MODULE_WORD == <<"M","o","d","u","l","e">>
MODULE_NOTES_HEAD == <<"M","o","d","u","l","e",":"," ">>

is_module_title(title_text) ==
    Contains(Lower(title_text), <<"m","o","d","u","l","e">>)

module_name_of(title_text) ==
    LET n == Strip(Remove(title_text, MODULE_WORD))
    IN  IF Contains(n, <<":">>) THEN Strip(SplitSecond(n, ":")) ELSE n

\* The synthesized module notes (first sentence of the template).
module_notes(title_text) ==
    MODULE_NOTES_HEAD \o module_name_of(title_text) \o <<".">>

\* The notes create_content_slide sets: <<>> when it sets none.
content_slide_notes(title_text, notes) ==
    LET possible_keys == <<title_text, title_text, Strip(title_text)>>
        hit == FirstHit(possible_keys, notes)
    IN  IF notes # <<>>
        THEN IF hit # 0 THEN <<Get(notes, possible_keys[hit])>>
             ELSE IF is_module_title(title_text) THEN <<module_notes(title_text)>>
             ELSE <<>>
        ELSE IF is_module_title(title_text) THEN <<module_notes(title_text)>>
        ELSE <<>>

create_content_slide(title_text, bullet_points, notes) ==
    [texts |-> <<title_text>>
                 \o (IF bullet_points # <<>>
                     THEN <<Join(bullet_points, <<"\n">>)>> ELSE <<>>),
     notes |-> content_slide_notes(title_text, notes)]

\* ---------------------------------------------------------- get_speaker_notes
NOT_AVAILABLE_HEAD ==
    <<"S","p","e","a","k","e","r"," ","n","o","t","e","s"," ","f","o","r"," ","'">>
NOT_AVAILABLE_TAIL == <<"'"," ","n","o","t"," ","a","v","a","i","l","a","b","l","e",".">>

get_speaker_notes(slide_title, notes) ==
    IF HasKey(notes, slide_title) THEN Get(notes, slide_title)
    ELSE NOT_AVAILABLE_HEAD \o slide_title \o NOT_AVAILABLE_TAIL

\* ---------------------------------------- add_speaker_notes_to_presentation
\* fallback_title: "Course: <last part>" when CURRENT_DIR has two parts
fallback_title_of(dir) ==
    IF Len(dir) >= 2 THEN COURSE_KEY_PREFIX \o dir[Len(dir)] ELSE None

\* The text of the notes frame once the runs of its paragraphs are emptied
\* and notes_text is assigned to its first paragraph: the paragraphs after
\* the first stay, empty.
replace_notes(slide, notes_text) ==
    [slide EXCEPT !.notes =
        <<notes_text
            \o (IF slide.notes = <<>> THEN <<>>
                ELSE [k \in 1..Count(slide.notes[1], "\n") |-> "\n"])>>]

\* First try of the single-slide branch: the first text of the slide that is
\* a key of the map (the loop breaks there).
FirstTextHit(texts, notes) ==
    IF \E i \in 1..Len(texts) : texts[i] # <<>> /\ HasKey(notes, texts[i])
    THEN CHOOSE i \in 1..Len(texts) :
            /\ texts[i] # <<>> /\ HasKey(notes, texts[i])
            /\ \A j \in 1..(i - 1) : ~(texts[j] # <<>> /\ HasKey(notes, texts[j]))
    ELSE 0

\* The single-slide branch without its last try (the only entry of a
\* one-entry map).
single_slide_notes_text_two_tries(slide, notes, dir) ==
    LET hit == FirstTextHit(slide.texts, notes)
        t1 == IF hit # 0 THEN Get(notes, slide.texts[hit]) ELSE None
        fb == fallback_title_of(dir)
    IN  IF t1 = None /\ fb # None /\ HasKey(notes, fb)
        THEN Get(notes, fb) ELSE t1

\* The three tries of the single-slide branch; None when nothing was found.
single_slide_notes_text(slide, notes, dir) ==
    LET hit == FirstTextHit(slide.texts, notes)
        t1 == IF hit # 0 THEN Get(notes, slide.texts[hit]) ELSE None
        fb == fallback_title_of(dir)
        t2 == IF t1 = None /\ fb # None /\ HasKey(notes, fb)
              THEN Get(notes, fb) ELSE t1
    IN  IF t2 = None /\ Len(notes) = 1 THEN notes[1].val ELSE t2

single_slide_branch(slide, notes, dir) ==
    LET notes_text == single_slide_notes_text(slide, notes, dir)
    IN  IF notes_text # None THEN replace_notes(slide, notes_text)
        ELSE slide

\* The multi-slide branch: the title shape's text must be a key.
multi_slide_branch(slide, notes) ==
    IF HasKey(notes, slide.texts[1])
    THEN replace_notes(slide, Get(notes, slide.texts[1]))
    ELSE slide

add_speaker_notes_to_presentation(slides, notes, dir) ==
    IF Len(slides) = 1
    THEN <<single_slide_branch(slides[1], notes, dir)>>
    ELSE [i \in 1..Len(slides) |-> multi_slide_branch(slides[i], notes)]

\* ------------------------------------------------------------ image files
SLIDE_SUFFIX == <<"_","s","l","i","d","e",".","p","n","g">>
BATCH_SIZE == 25

\* image_filename = f"{slide_num:02d}_slide.png", slide_num from
\* slides_data.index(slide) + 1
image_path_of(slides, i) == ZeroPad(IndexOf(slides, slides[i]), 2) \o SLIDE_SUFFIX

\* The characters of file names in code-point order.
ASCII ==
    <<" ", ".", "0", "1", "2", "3", "4", "5", "6", "7", "8", "9", ":">>
        \o UPPER \o <<"_">> \o LOWER

Ord(c) == CHOOSE i \in 1..Len(ASCII) : ASCII[i] = c

\* a < b for strings
RECURSIVE LexLess(_, _)
LexLess(a, b) ==
    IF b = <<>> THEN FALSE
    ELSE IF a = <<>> THEN TRUE
    ELSE IF Head(a) = Head(b) THEN LexLess(Tail(a), Tail(b))
    ELSE Ord(Head(a)) < Ord(Head(b))

\* sorted(names)
sorted(names) == SortSeq(names, LexLess)

\* One call of call_llm, for the prompts or for the notes.
text_request(what) == [to |-> "text", what |-> what, slides |-> <<>>]

\* One call of generate_images_parallel, for the slides of one chunk.
image_request(batch) == [to |-> "image", what |-> "images", slides |-> batch]

\* The request of one chunk: the slide positions i+1 .. i+batch_size.
batch_positions(slides, i, size) ==
    [j \in 1..(IF i + size <= Len(slides) THEN size ELSE Len(slides) - i) |-> i + j]

\* "if j < len(all_image_paths): image_paths_by_title[title] = all_image_paths[j]"
RECURSIVE associate(_, _, _, _, _)
associate(paths_by_title, slides, batch, all_image_paths, j) ==
    IF j > Len(batch) THEN paths_by_title
    ELSE associate(
            IF j <= Len(all_image_paths)
            THEN Put(paths_by_title, slides[batch[j]].title, all_image_paths[j])
            ELSE paths_by_title,
            slides, batch, all_image_paths, j + 1)

\* The files one request leaves in slide_images.
RECURSIVE write_files(_, _, _, _)
write_files(dir, slides, done, j) ==
    IF j > Len(done) THEN dir
    ELSE write_files(Put(dir, image_path_of(slides, done[j]), done[j]),
                     slides, done, j + 1)

\* "slide_to_image_map[slide['title']] = ai_image_files[i]" for
\* i < len(ai_image_files)
RECURSIVE map_by_position(_, _, _, _)
map_by_position(m, slides, files, i) ==
    IF i > Len(slides) THEN m
    ELSE map_by_position(
            IF i <= Len(files) THEN Put(m, slides[i].title, files[i]) ELSE m,
            slides, files, i + 1)

\* ------------------------------------------------- collaborator responses
WS == {" ", "\n"}

\* str.strip() on text that has line breaks
RECURSIVE LStripWs(_)
LStripWs(s) == IF s # <<>> /\ Head(s) \in WS THEN LStripWs(Tail(s)) ELSE s

RECURSIVE RStripWs(_)
RStripWs(s) ==
    IF s # <<>> /\ s[Len(s)] \in WS
    THEN RStripWs(SubSeq(s, 1, Len(s) - 1)) ELSE s

StripWs(s) == RStripWs(LStripWs(s))

HasAt(s, p, i) == i + Len(p) - 1 <= Len(s) /\ SubSeq(s, i, i + Len(p) - 1) = p

\* str.find(p, start): the first position from start on where p occurs,
\* 0 when there is none (positions are 1-based)
FindFrom(s, p, start) ==
    IF \E i \in start..Len(s) : HasAt(s, p, i)
    THEN CHOOSE i \in start..Len(s) :
            HasAt(s, p, i) /\ \A j \in start..(i - 1) : ~HasAt(s, p, j)
    ELSE 0

\* The backquote, which a string of this notation cannot hold, is the token
\* "bq".
BACKQUOTE == "bq"
FENCE == <<BACKQUOTE, BACKQUOTE, BACKQUOTE>>
FENCE_JSON == FENCE \o <<"j", "s", "o", "n">>

\* json.loads for the documents that the response alphabet can spell: an
\* object whose members are strings.  No escapes; a line break inside a
\* string is an invalid control character; anything after the closing brace
\* but white space is extra data.
JsonFail == [ok |-> FALSE, val |-> <<>>, next |-> 0]

RECURSIVE SkipWs(_, _)
SkipWs(s, i) == IF i <= Len(s) /\ s[i] \in WS THEN SkipWs(s, i + 1) ELSE i

JsonString(s, i) ==
    IF i > Len(s) \/ s[i] # "\"" THEN JsonFail
    ELSE LET j == FindFrom(s, <<"\"">>, i + 1)
         IN  IF j = 0 \/ \E k \in (i + 1)..(j - 1) : s[k] = "\n" THEN JsonFail
             ELSE [ok |-> TRUE, val |-> SubSeq(s, i + 1, j - 1), next |-> j + 1]

\* the members from position i on, i at the start of a key
RECURSIVE JsonMembers(_, _, _)
JsonMembers(s, i, acc) ==
    LET k == JsonString(s, i)
        c == SkipWs(s, k.next)
        v == JsonString(s, SkipWs(s, c + 1))
        e == SkipWs(s, v.next)
    IN  IF ~k.ok \/ c > Len(s) \/ s[c] # ":" \/ ~v.ok \/ e > Len(s) THEN JsonFail
        ELSE IF s[e] = "}"
        THEN [ok |-> TRUE, val |-> Put(acc, k.val, v.val), next |-> e + 1]
        ELSE IF s[e] = ","
        THEN JsonMembers(s, SkipWs(s, e + 1), Put(acc, k.val, v.val))
        ELSE JsonFail

JsonObject(s, i) ==
    IF i > Len(s) \/ s[i] # "{" THEN JsonFail
    ELSE LET m == SkipWs(s, i + 1)
         IN  IF m <= Len(s) /\ s[m] = "}"
             THEN [ok |-> TRUE, val |-> <<>>, next |-> m + 1]
             ELSE JsonMembers(s, m, <<>>)

\* json.loads(s): ok is FALSE for JSONDecodeError
json_loads(s) ==
    LET r == JsonObject(s, SkipWs(s, 1))
    IN  IF r.ok /\ SkipWs(s, r.next) = Len(s) + 1
        THEN [ok |-> TRUE, val |-> r.val]
        ELSE [ok |-> FALSE, val |-> <<>>]

\* "if <fence>json in response": the text between the marker and the next
\* fence, stripped, when that fence lies behind the marker's end
fence_step(response) ==
    LET i == FindFrom(response, FENCE_JSON, 1)
        e == IF i = 0 THEN 0 ELSE FindFrom(response, FENCE, i + 7)
    IN  IF i # 0 /\ e > i + 7
        THEN StripWs(SubSeq(response, i + 7, e - 1))
        ELSE response

\* "response = response.strip(); if not response.startswith('{'): ..."
brace_step(response) ==
    LET r == StripWs(response)
        i == FindFrom(r, <<"{">>, 1)
    IN  IF ~StartsWith(r, <<"{">>) /\ i # 0 THEN SubSeq(r, i, Len(r)) ELSE r

clean_json_response(response) == brace_step(fence_step(response))

\* re.search(<fence>json\n(.+?)\n<fence>, content, re.DOTALL): the group of the
\* leftmost match, the shortest for its start; <<>> stands for no match
fence_group(content) ==
    LET open == FENCE_JSON \o <<"\n">>
        close == <<"\n">> \o FENCE
        Ends(i) == {j \in (i + 9)..Len(content) : HasAt(content, close, j)}
        Starts == {i \in 1..Len(content) :
                      HasAt(content, open, i) /\ Ends(i) # {}}
    IN  IF Starts = {} THEN <<>>
        ELSE LET i == CHOOSE x \in Starts : \A y \in Starts : x <= y
                 j == CHOOSE x \in Ends(i) : \A y \in Ends(i) : x <= y
             IN  <<SubSeq(content, i + 8, j - 1)>>

\* load_enhanced_notes(notes_file) on a file with this content: the parsed
\* map, {} when nothing parses
load_enhanced_notes(content) ==
    LET whole == json_loads(content)
        g == fence_group(content)
    IN  IF whole.ok THEN whole.val
        ELSE IF g # <<>> /\ json_loads(g[1]).ok THEN json_loads(g[1]).val
        ELSE <<>>

\* -------------------------------------------- generate_all_image_prompts
PROMPT_HEAD ==
    <<"C","r","e","a","t","e"," ","a"," ","p","r","o","f","e","s","s","i","o","n","a","l"," ",
      "i","m","a","g","e"," ","r","e","p","r","e","s","e","n","t","i","n","g"," ">>

\* The synthesized prompt (its first sentence; the rest is fixed text).
create_fallback_prompt(slide_title) == PROMPT_HEAD \o slide_title \o <<".">>

\* extract_slide_info on the one-module outline that
\* generate_slide_images_parallel builds from the slides: a title and the
\* joined content per slide, cut at max_slides when that is positive.
extract_slide_info(slides, max) ==
    LET all == [i \in 1..Len(slides) |->
                   [title |-> slides[i].title,
                    content |-> Join(slides[i].content, <<"\n">>)]]
    IN  IF max > 0 /\ max < Len(all) THEN SubSeq(all, 1, max) ELSE all

\* "for slide_info in slides_info: cache[slide_info['title']] = text":
\* texts[i] is the text made for the i-th slide.
RECURSIVE fallback_map(_, _, _, _)
\* The loop left after its first round.
fallback_map_first_only(info, texts, i, acc) ==
    IF i > Len(info) THEN acc ELSE Put(acc, info[i].title, texts[i])

fallback_map(info, texts, i, acc) ==
    IF i > Len(info) THEN acc
    ELSE fallback_map(info, texts, i + 1, Put(acc, info[i].title, texts[i]))

fallback_prompts(info) ==
    fallback_map(info,
                 [i \in 1..Len(info) |-> create_fallback_prompt(info[i].title)],
                 1, <<>>)

\* A side file that receives the answer after it was cleaned.
saved_file_cleaned(before, answer, raises) ==
    IF raises THEN before ELSE <<clean_json_response(answer)>>

\* The side file after the call: "f.write(prompts_json)" with the answer as
\* it came, the file as it was when call_llm raised.
saved_file(before, answer, raises) ==
    IF raises THEN before ELSE <<answer>>

\* A lookup that keeps the prompt it made for a missing title.
get_enhanced_prompt_setdefault(slide_title, cache) ==
    IF HasKey(cache, slide_title)
    THEN [prompt |-> Get(cache, slide_title), prompt_cache |-> cache]
    ELSE [prompt |-> create_fallback_prompt(slide_title),
          prompt_cache |-> Put(cache, slide_title,
                               create_fallback_prompt(slide_title))]

\* get_enhanced_prompt(slide_title): the prompt returned and the global
\* prompt_cache it leaves, which it never assigns to.
get_enhanced_prompt(slide_title, cache) ==
    IF HasKey(cache, slide_title)
    THEN [prompt |-> Get(cache, slide_title), prompt_cache |-> cache]
    ELSE [prompt |-> create_fallback_prompt(slide_title),
          prompt_cache |-> cache]

\* generate_all_image_prompts: the parsed answer, the fallback prompts when
\* the call raises or json.loads raises.
generate_all_image_prompts(slides, max, answer, raises) ==
    LET info == extract_slide_info(slides, max)
        parsed == json_loads(clean_json_response(answer))
    IN  IF raises THEN fallback_prompts(info)
        ELSE IF parsed.ok THEN parsed.val
        ELSE fallback_prompts(info)

\* -------------------------------------------- generate_all_speaker_notes
NOTES_WELCOME == <<"W","e","l","c","o","m","e"," ","t","o"," ">>
NOTES_COVERS == <<"T","h","i","s"," ","s","l","i","d","e"," ","c","o","v","e","r","s"," ">>
NOTES_ABOUT == <<"I","n"," ","t","h","i","s"," ","s","l","i","d","e"," ","a","b","o","u","t"," ">>
NOTES_DISCUSS ==
    <<"D","i","s","c","u","s","s"," ","t","h","e"," ","k","e","y"," ","p","o","i","n","t","s"," ",
      "o","n"," ","t","h","i","s"," ","s","l","i","d","e"," ","a","b","o","u","t"," ">>
INTRO_CONTENT ==
    <<"I","n","t","r","o","d","u","c","t","i","o","n"," ","t","o"," ","t","h","e"," ",
      "c","o","u","r","s","e">>

\* The fallback of the JSONDecodeError handler, by slide type (first
\* sentence of each template).
typed_fallback_note(e) ==
    IF e.type = "module" THEN NOTES_WELCOME \o e.title \o <<".">>
    ELSE IF e.type = "topic" THEN NOTES_COVERS \o e.title \o <<".">>
    ELSE NOTES_ABOUT \o e.title \o <<",">>

\* The fallback of the outer handler.
plain_fallback_note(e) == NOTES_DISCUSS \o e.title \o <<".">>

\* "if not slides_info": one slide for the course of the directory when the
\* path has two parts
slides_to_annotate(info, dir) ==
    IF info # <<>> THEN info
    ELSE IF Len(dir) >= 2
    THEN <<[title |-> COURSE_KEY_PREFIX \o dir[Len(dir)],
            content |-> INTRO_CONTENT, type |-> "title"]>>
    ELSE <<>>

\* The slides the notes request is made for; none: no request, {} returned.
notes_request(slides_info_in, max, dir) ==
    LET all == slides_to_annotate(slides_info_in, dir)
    IN  IF max > 0 /\ max < Len(all) THEN SubSeq(all, 1, max) ELSE all

generate_all_speaker_notes(slides_info_in, max, dir, answer, raises) ==
    LET info == notes_request(slides_info_in, max, dir)
        parsed == json_loads(brace_step(fence_step(answer)))
    IN  IF info = <<>> THEN <<>>
        ELSE IF raises THEN fallback_map(info, [i \in 1..Len(info) |-> plain_fallback_note(info[i])], 1, <<>>)
        ELSE IF parsed.ok THEN parsed.val
        ELSE fallback_map(info, [i \in 1..Len(info) |-> typed_fallback_note(info[i])], 1, <<>>)

\* ------------------------------------- parse_outline of the exam generator
\* The index after the digits that start at i: \d+ took them all.
RECURSIVE DigitRun(_, _)
DigitRun(s, i) ==
    IF i <= Len(s) /\ s[i] \in Digits THEN DigitRun(s, i + 1) ELSE i

\* The index after k dot-separated groups of digits from i on, 0 without.
RECURSIVE PathEnd(_, _, _)
PathEnd(s, i, k) ==
    LET e == DigitRun(s, i)
    IN  IF e = i THEN 0
        ELSE IF k = 1 THEN e
        ELSE IF e <= Len(s) /\ s[e] = "." THEN PathEnd(s, e + 1, k - 1)
        ELSE 0

NoMatch == [ok |-> FALSE, number |-> <<>>, rest |-> <<>>]

\* re.match(r'^(\d+(\.\d+){k-1})\s(.+)$', line) and its two groups
path_match(line, k) ==
    LET e == PathEnd(line, 1, k)
    IN  IF e # 0 /\ e < Len(line) /\ line[e] \in WS
        THEN [ok |-> TRUE, number |-> SubSeq(line, 1, e - 1),
              rest |-> SubSeq(line, e + 1, Len(line))]
        ELSE NoMatch

DOT_MODULE == <<".", "M", "o", "d", "u", "l", "e">>

\* re.match(r'^(\d+)\.Module\s(.+)$', line)
module_match(line) ==
    LET e == DigitRun(line, 1)
    IN  IF /\ e > 1
           /\ Len(line) >= e + 8
           /\ SubSeq(line, e, e + 6) = DOT_MODULE
           /\ line[e + 7] \in WS
        THEN [ok |-> TRUE, number |-> SubSeq(line, 1, e - 1),
              rest |-> SubSeq(line, e + 8, Len(line))]
        ELSE NoMatch

topic_match(line) == path_match(line, 2)
subtopic_match(line) == path_match(line, 3)
point_match(line) == path_match(line, 4)

\* A log that takes the new line at its front.
append_full_content_at_front(o, cm, line) ==
    LET m == Get(o, cm)
    IN  Put(o, cm, [m EXCEPT !.full_content = <<line>> \o @])

\* outline[cm]["full_content"].append(line)
append_full_content(o, cm, line) ==
    LET m == Get(o, cm)
    IN  Put(o, cm, [m EXCEPT !.full_content = Append(@, line)])

ExamStart ==
    [outline |-> <<>>, current_module |-> None, current_topic |-> None,
     current_subtopic |-> None, all_content |-> <<>>]

\* One iteration of the loop of a08_Final_Exam.parse_outline (lines 94-160);
\* a07_QUIZ_Per_Module.parse_outline (lines 92-154) is the same loop without
\* all_content.
exam_line_step(st, raw) ==
    LET line == Strip(raw)
        cm == st.current_module
        ct == st.current_topic
        cs == st.current_subtopic
        st1 == [st EXCEPT !.all_content = Append(@, line)]
        mm == module_match(line)
        tm == topic_match(line)
        sm == subtopic_match(line)
        pm == point_match(line)
    IN  IF line = <<>> THEN st
        ELSE IF mm.ok
        THEN [st1 EXCEPT
                !.outline = Put(st.outline, MODULE_PREFIX \o mm.number,
                                [title |-> Strip(mm.rest),
                                 module_number |-> mm.number,
                                 topics |-> <<>>,
                                 full_content |-> <<line>>]),
                !.current_module = MODULE_PREFIX \o mm.number,
                !.current_topic = None,
                !.current_subtopic = None]
        ELSE IF tm.ok /\ cm # None
        THEN [st1 EXCEPT
                !.outline =
                    append_full_content(
                        PutTopic(st.outline, cm, TOPIC_PREFIX \o tm.number,
                                 [title |-> Strip(tm.rest),
                                  topic_number |-> tm.number,
                                  subtopics |-> <<>>]),
                        cm, line),
                !.current_topic = TOPIC_PREFIX \o tm.number,
                !.current_subtopic = None]
        ELSE IF sm.ok /\ cm # None /\ ct # None
        THEN [st1 EXCEPT
                !.outline =
                    append_full_content(
                        PutSubtopic(st.outline, cm, ct,
                                    SUBTOPIC_PREFIX \o sm.number,
                                    [title |-> Strip(sm.rest),
                                     subtopic_number |-> sm.number,
                                     points |-> <<>>]),
                        cm, line),
                !.current_subtopic = SUBTOPIC_PREFIX \o sm.number]
        ELSE IF pm.ok /\ cm # None /\ ct # None /\ cs # None
        THEN [st1 EXCEPT
                !.outline =
                    append_full_content(
                        AppendPoint(st.outline, cm, ct, cs, Strip(pm.rest)),
                        cm, line)]
        ELSE IF cm # None
        THEN [st1 EXCEPT !.outline = append_full_content(st.outline, cm, line)]
        ELSE st1

\* ------------------------------------------------------- the video stage
\* int(re.search(r'^(\d+)', filename).group(1)); inf without leading digits
NO_NUMBER == 1000

extract_number(filename) ==
    LET e == DigitRun(filename, 1)
    IN  IF e = 1 THEN NO_NUMBER
        ELSE CHOOSE n \in 0..(NO_NUMBER - 1) :
                \E w \in 1..(e - 1) : ZeroPad(n, w) = SubSeq(filename, 1, e - 1)

\* extract_slides_as_images: the snapshot files of the directory, sorted by
\* their leading number; [] when there are none.
RECURSIVE extract_slides_as_images(_)
extract_slides_as_images(dir) ==
    IF dir = {} THEN <<>>
    ELSE LET first == CHOOSE f \in dir :
                         \A g \in dir : extract_number(f) <= extract_number(g)
         IN  <<first>> \o extract_slides_as_images(dir \ {first})

\* load_speaker_notes(notes_file) on a file with this content: the parsed
\* map, {} when nothing parses
load_speaker_notes(content) ==
    LET whole == json_loads(content)
        g == fence_group(content)
    IN  IF whole.ok THEN whole.val
        ELSE IF g # <<>> /\ json_loads(g[1]).ok THEN json_loads(g[1]).val
        ELSE <<>>

W_slide == <<"s", "l", "i", "d", "e">>

\* The sort key of match_slides_to_notes: the digits after the first
\* "slide" that has digits behind it, 0 when no "slide<digits>" occurs.
slide_key(name) ==
    LET at == {i \in 1..Len(name) :
                  /\ HasAt(name, W_slide, i)
                  /\ DigitRun(name, i + 5) > i + 5}
    IN  IF at = {} THEN 0
        ELSE LET i == CHOOSE x \in at : \A y \in at : x <= y
             IN  extract_number(SubSeq(name, i + 5, Len(name)))

\* sorted(paths, key=slide_key): stable
RECURSIVE sorted_by_slide_key(_)
sorted_by_slide_key(paths) ==
    IF paths = <<>> THEN <<>>
    ELSE LET i == CHOOSE x \in 1..Len(paths) :
                     /\ \A y \in 1..Len(paths) :
                           slide_key(paths[x]) <= slide_key(paths[y])
                     /\ \A y \in 1..(x - 1) :
                           slide_key(paths[y]) > slide_key(paths[x])
         IN  <<paths[i]>>
                \o sorted_by_slide_key(SubSeq(paths, 1, i - 1)
                                         \o SubSeq(paths, i + 1, Len(paths)))

\* match_slides_to_notes: the i-th path with the text of the i-th key of the
\* notes, "" beyond the last key.
match_slides_to_notes(slide_image_paths, notes_data) ==
    LET paths == sorted_by_slide_key(slide_image_paths)
    IN  [i \in 1..Len(paths) |->
            [slide |-> paths[i],
             note |-> IF i <= Len(notes_data) THEN notes_data[i].val ELSE <<>>]]

\* An answer of the text collaborator that has one entry per requested
\* title, in the order of the request: the JSON text of {title: "n:" title}.
RECURSIVE echo_members(_, _)
echo_members(info, i) ==
    IF i > Len(info) THEN <<>>
    ELSE (IF i > 1 THEN <<",">> ELSE <<>>)
            \o <<"\"">> \o info[i].title \o <<"\"", ":", "\"", "n", ":">>
            \o info[i].title \o <<"\"">>
            \o echo_members(info, i + 1)

echo_answer(info) == <<"{">> \o echo_members(info, 1) \o <<"}">>

\* ---------------------------------------------------------------- the input
L_BLANK == <<>>
L_1A == <<"1", " ", "A">>
L_1dotA == <<"1", ".", " ", "A">>
L_2B == <<"2", " ", "B">>
L_11C == <<"1", ".", "1", " ", "C">>
L_111D == <<"1", ".", "1", ".", "1", " ", "D">>
L_1111E == <<"1", ".", "1", ".", "1", ".", "1", " ", "E">>
L_egF == <<"e", ".", "g", ".", " ", "F">>

LinePool == {L_BLANK, L_1A, L_1dotA, L_2B, L_11C, L_111D, L_1111E, L_egF}

RECURSIVE SeqsUpTo(_, _)
SeqsUpTo(S, n) ==
    IF n = 0 THEN {<<>>}
    ELSE LET prev == SeqsUpTo(S, n - 1)
         IN  prev \cup {Append(q, x) : q \in {p \in prev : Len(p) = n - 1}, x \in S}

\* The outline of the worked example: title, module, topic, subtopic, points.
ScenarioFile ==
    << <<"A","I"," ","1","0","1">>,
       <<"1","."," ","S","e","c","u","r","i","t","y">>,
       <<"1",".","1"," ","B","a","s","i","c","s">>,
       <<"1",".","1",".","1"," ","I","n","t","r","o">>,
       <<"1",".","1",".","1",".","1"," ","P","o","i","n","t"," ","A">>,
       <<"1",".","1",".","1",".","2"," ","P","o","i","n","t"," ","B">> >>

\* The same outline with the module line in the undotted form.
ScenarioFilePlain ==
    [ScenarioFile EXCEPT ![2] = <<"1"," ","S","e","c","u","r","i","t","y">>]

\* A subtopic line whose second number is not 1.
L_321S == <<"3",".","2",".","1"," ","S">>

\* Further files: other tokens, a bare dot, a line without a space, leading
\* blanks before the title, a module number used twice.
ExtraFiles ==
    { ScenarioFile, ScenarioFilePlain,
      << <<"T">>, L_1A, <<"v","1",".","2"," ","R">>, <<"a",".","b",".","c"," ","t">> >>,
      << <<"T">>, L_1A, L_11C, <<"."," ","Z">>, L_2B, L_11C >>,
      << <<"T">>, L_1A, <<"X"," ","Y">>, <<"n","o","s","p","a","c","e">>, L_11C >>,
      << L_BLANK, <<" "," ">>, <<"A","I"," ","1","0","1">>, L_1A, L_11C >>,
      << <<"T">>, <<"2",".","1"," ","F","o","o">>, L_11C >>,
      << <<"T">>, L_1A, L_11C, L_2B, L_11C, L_1A, L_11C, L_111D >>,
      << <<"T">>, L_1A, L_11C, L_111D, L_1111E,
         <<"1",".","1",".","1",".","2"," ","G">>, L_2B,
         <<"2",".","1"," ","H">>, <<"2",".","1",".","1"," ","D">> >>,
      << <<"T">>, L_1A, L_11C, L_111D, <<"9",".","9",".","9",".","9"," ","P">>,
         <<"1",".","2"," ","H">>, L_1111E >>,
      << <<"T">>, L_321S >>,
      << <<"T">>, <<"3"," ","A">>, L_321S, <<"3",".","2",".","2"," ","U">> >> }

Files == SeqsUpTo(LinePool, MaxLines) \cup ExtraFiles

\* max_slides values tried: the small caps, and the cap main() passes.
MAX_SLIDES_TO_PROCESS == 50
Caps == (0..MaxCap) \cup {MAX_SLIDES_TO_PROCESS - 1}

\* ------------------------------------------------ the responses considered
MaxPieces == 5

P_OPEN == <<"{", "\"", "a", "\"", ":", "\"">>
P_CLOSE == <<"\"", "}">>
P_OBJECT == <<"{", "\"", "a", "\"", ":", " ", "\"", "b", "\"", "}">>
P_TEXT == <<"x", " ">>
P_NEWLINE == <<"\n">>

Pieces == {P_OPEN, P_CLOSE, P_OBJECT, P_TEXT, P_NEWLINE, FENCE_JSON, FENCE}

RECURSIVE Flatten(_)
Flatten(q) == IF q = <<>> THEN <<>> ELSE Head(q) \o Flatten(Tail(q))

\* What the text collaborator can answer and what a notes file can hold.
Responses == {Flatten(q) : q \in SeqsUpTo(Pieces, MaxPieces)}

\* ------------------------------------------------------------------- state
VARIABLES
    pc,                 \* position in the run
    file,               \* the lines of the outline file
    course_title, lines, outline, current_module, current_topic,
    current_subtopic,   \* parse_outline's locals and result
    all_content,        \* the exam parser's list of all lines read
    max_slides, slides_data, raised,             \* prepare_slides_data
    cur_dir,            \* CURRENT_DIR's course name, None without one
    snapshot_paths, markdown, slides_info, info_raised,
    snapshot_dir,       \* slide_snapshots: the names of the files in it
    matches,            \* the (snapshot, narration) pairs of the video stage
    enhanced_notes,     \* the global notes map create_*_slide reads
    deck,               \* the slides of the presentation
    all_notes,          \* the notes map of generate_all_speaker_notes
    batch_size, batch_start, image_paths_by_title,
    image_dir,          \* slide_images: file name -> position of the slide
                        \* whose prompt the image was generated from
    failed,             \* positions whose image generation failed
    slide_to_image_map,
    response,           \* the text the collaborator answers with
    call_raised,        \* call_llm raises instead of answering
    notes_file,         \* the enhanced notes file: <<>> or <<content>>
    prompt_cache,       \* the prompts of generate_all_image_prompts
    prompts_file,       \* the enhanced prompts file: <<>> or <<content>>
    requests,           \* the requests made to the two collaborators, in order
    lookups             \* the lookups made in the artifact maps, in order

parseVars == <<file, course_title, lines, outline, current_module,
               current_topic, current_subtopic, all_content>>
projVars == <<max_slides, slides_data, raised>>
chanVars == <<cur_dir, snapshot_paths, markdown, slides_info, info_raised,
              snapshot_dir, matches>>

noteVars == <<enhanced_notes, deck, all_notes>>
imgVars == <<batch_size, batch_start, image_paths_by_title, image_dir, failed,
             slide_to_image_map>>

llmVars == <<response, call_raised, notes_file, prompt_cache, prompts_file,
             requests, lookups>>

vars == <<pc, parseVars, projVars, chanVars, noteVars, imgVars, llmVars>>

cursor == [outline |-> outline, current_module |-> current_module,
           current_topic |-> current_topic,
           current_subtopic |-> current_subtopic]

ParseStart ==
    /\ pc = "start"
    /\ course_title = DEFAULT_TITLE
    /\ lines = <<>>
    /\ outline = <<>>
    /\ current_module = None
    /\ current_topic = None
    /\ current_subtopic = None
    /\ all_content = <<>>

ProjStart == max_slides = 0 /\ slides_data = <<>> /\ raised = FALSE

ChanStart ==
    /\ snapshot_paths = <<>>
    /\ snapshot_dir = {}
    /\ matches = <<>>
    /\ markdown = <<>>
    /\ slides_info = <<>>
    /\ info_raised = FALSE

NoteStart == enhanced_notes = <<>> /\ deck = <<>> /\ all_notes = <<>>

LlmStart ==
    /\ response = <<>>
    /\ call_raised = FALSE
    /\ notes_file = <<>>
    /\ prompt_cache = <<>>
    /\ prompts_file = <<>>
    /\ requests = <<>>
    /\ lookups = <<>>

ImgStart ==
    /\ batch_size = 0
    /\ batch_start = 0
    /\ image_paths_by_title = <<>>
    /\ image_dir = <<>>
    /\ failed = {}
    /\ slide_to_image_map = <<>>

Init ==
    /\ file \in Files
    /\ ParseStart
    /\ ProjStart
    /\ cur_dir = <<>>
    /\ ChanStart
    /\ NoteStart
    /\ ImgStart
    /\ LlmStart

\* parse_outline up to the loop: read the lines, take the title.
ReadTitle ==
    /\ pc = "start"
    /\ course_title' = title_step(file).course_title
    /\ lines' = title_step(file).lines
    /\ pc' = "parse"
    /\ UNCHANGED <<file, outline, current_module, current_topic,
                   current_subtopic, all_content, projVars, chanVars, noteVars, imgVars, llmVars>>

\* One iteration of the loop over the lines.
ParseLine ==
    /\ pc = "parse"
    /\ lines # <<>>
    /\ LET st == line_step(cursor, Head(lines))
       IN  /\ outline' = st.outline
           /\ current_module' = st.current_module
           /\ current_topic' = st.current_topic
           /\ current_subtopic' = st.current_subtopic
    /\ lines' = Tail(lines)
    /\ UNCHANGED <<file, pc, course_title, all_content, projVars, chanVars,
                   noteVars, imgVars, llmVars>>

\* A return that fails on an outline without modules.
ParseReturn_fails_on_empty ==
    /\ pc = "parse"
    /\ lines = <<>>
    /\ pc' = (IF outline = <<>> THEN "failed" ELSE "parsed")
    /\ UNCHANGED <<parseVars, projVars, chanVars, noteVars, imgVars, llmVars>>

\* The loop is over: parse_outline returns (outline, course_title).
ParseReturn ==
    /\ pc = "parse"
    /\ lines = <<>>
    /\ pc' = "parsed"
    /\ UNCHANGED <<parseVars, projVars, chanVars, noteVars, imgVars, llmVars>>

\* prepare_slides_data on the parsed outline.
Project ==
    /\ pc = "parsed"
    /\ \E k \in Caps :
          LET r == prepare_slides_data(outline, k)
          IN  /\ max_slides' = k
              /\ slides_data' = (IF r.raised THEN <<>> ELSE r.slides)
              /\ raised' = r.raised
    /\ pc' = "projected"
    /\ UNCHANGED <<parseVars, chanVars, noteVars, imgVars, llmVars>>

Next == ReadTitle \/ ParseLine \/ ParseReturn \/ Project

Spec == Init /\ [][Next]_vars

\* ------------------------------------------ the channels of one run of main
ChannelPool == {L_1A, L_2B, L_11C, L_111D, L_1111E}

ChannelFiles ==
    {<<<<"T">>>> \o f : f \in SeqsUpTo(ChannelPool, MaxLines)}
        \cup {f \in ExtraFiles : Len(f) <= 6}

\* CURRENT_DIR as its path parts: no directory, "AI", "courses/K".
W_K == <<"K">>
CourseDirs == {<<>>, <<<<"A","I">>>>, <<<<"c","o","u","r","s","e","s">>, W_K>>}

InitChannels ==
    /\ file \in ChannelFiles
    /\ ParseStart
    /\ ProjStart
    /\ cur_dir \in CourseDirs
    /\ ChanStart
    /\ NoteStart
    /\ ImgStart
    /\ LlmStart

\* main(): the snapshots of the deck (lines 1176-1183); which snapshots get
\* written is up to the renderer.
GenerateSnapshots ==
    /\ pc = "projected"
    /\ ~raised
    /\ \E ok \in SUBSET (0..Len(slides_data)) :
          /\ snapshot_paths' =
                generate_snapshots_for_presentation(
                    all_slides_data(slides_data), course_title, ok)
          /\ snapshot_dir' =
                snapshot_files(all_slides_data(slides_data), course_title, ok)
    /\ pc' = "snapshots"
    /\ UNCHANGED <<parseVars, projVars, cur_dir, markdown, slides_info,
                   info_raised, noteVars, imgVars, llmVars,
                   matches>>

\* main(): generate_markdown with the snapshot map (line 1186).
GenerateMarkdown ==
    /\ pc = "snapshots"
    /\ markdown' = generate_markdown(outline, snapshot_paths)
    /\ pc' = "markdown"
    /\ UNCHANGED <<parseVars, projVars, cur_dir, snapshot_paths, slides_info,
                   info_raised, noteVars, imgVars, llmVars,
                   snapshot_dir, matches>>

\* process_presentation_with_notes with a non-empty outline: the titles of
\* the notes batch request.
GenerateSlidesInfo ==
    /\ pc = "markdown"
    /\ outline # <<>>
    /\ LET r == generate_slides_info_from_outline(outline, cur_dir)
       IN  /\ slides_info' = (IF r.raised THEN <<>> ELSE r.info)
           /\ info_raised' = r.raised
    /\ pc' = "notes_request"
    /\ UNCHANGED <<parseVars, projVars, cur_dir, snapshot_paths, markdown,
                   noteVars, imgVars, llmVars,
                   snapshot_dir, matches>>

NextChannels ==
    \/ ReadTitle \/ ParseLine \/ ParseReturn \/ Project
    \/ GenerateSnapshots \/ GenerateMarkdown \/ GenerateSlidesInfo

SpecChannels == InitChannels /\ [][NextChannels]_vars

\* ------------------------------------------------- the notes of one deck
MaxNotes == 2

W_KF == <<"K"," ","F","u","n","d","a","m","e","n","t","a","l","s">>

NoteFiles ==
    { <<W_K>>, <<W_KF>>, <<W_K, L_1A>>,
      <<W_K, L_1A, L_11C, L_111D>>, <<W_KF, L_1A, L_11C, L_111D>> }

NoteKeys ==
    { W_K, COURSE_KEY_PREFIX \o W_K,
      <<"1",".","1",":"," ","C">>,
      <<"M","o","d","u","l","e"," ","1",":"," ","A">>,
      <<"Z">>, <<"Q">>, TITLE_SLIDE_KEY, CISCO_KEY }

\* Every key maps to a one-line text of its own; the entry "Q" has the
\* empty text.
NoteEntries ==
    {[key |-> k, val |-> IF k = <<"Q">> THEN <<>> ELSE <<"n", ":">> \o k] :
        k \in NoteKeys}

DistinctKeys(m) == \A i, j \in 1..Len(m) : i # j => m[i].key # m[j].key

NotesMaps == {m \in SeqsUpTo(NoteEntries, MaxNotes) : DistinctKeys(m)}

\* The notes file of the deck stage: the same entries, the text of the
\* course key in two paragraphs.
TwoParagraphs(e) ==
    IF e.key = COURSE_KEY_PREFIX \o W_K
    THEN [e EXCEPT !.val = e.val \o <<"\n", "m">>] ELSE e

EnhancedNotesMaps ==
    {[i \in 1..Len(m) |-> TwoParagraphs(m[i])] : m \in NotesMaps}

\* The state main() is in when parse_outline and prepare_slides_data are
\* done for a file.
AfterProjection(f) ==
    /\ file = f
    /\ course_title = title_step(f).course_title
    /\ lines = <<>>
    /\ all_content = <<>>
    /\ LET st == parse_lines(EmptyState, title_step(f).lines)
       IN  /\ outline = st.outline
           /\ current_module = st.current_module
           /\ current_topic = st.current_topic
           /\ current_subtopic = st.current_subtopic
           /\ max_slides = MAX_SLIDES_TO_PROCESS - 1
           /\ slides_data = prepare_slides_data(st.outline, MAX_SLIDES_TO_PROCESS - 1).slides
           /\ raised = FALSE

InitNotes ==
    /\ \E f \in NoteFiles : AfterProjection(f)
    /\ pc = "n_title"
    /\ cur_dir \in {<<>>, <<<<"c","o","u","r","s","e","s">>, W_K>>}
    /\ ChanStart
    /\ enhanced_notes \in EnhancedNotesMaps
    /\ deck = <<>>
    /\ all_notes = <<>>
    /\ ImgStart
    /\ LlmStart

\* main(): create_title_slide(prs, course_title, ...) (line 1137).
CreateTitleSlide ==
    /\ pc = "n_title"
    /\ deck' = <<create_title_slide(course_title, enhanced_notes)>>
    /\ pc' = "n_content"
    /\ UNCHANGED <<parseVars, projVars, chanVars, enhanced_notes, all_notes,
                   imgVars, llmVars>>

\* add_slides_to_presentation: create_content_slide for the next slide.
CreateContentSlide ==
    /\ pc = "n_content"
    /\ Len(deck) <= Len(slides_data)
    /\ LET sl == slides_data[Len(deck)]
       IN  deck' = Append(deck,
                     create_content_slide(sl.title, sl.content, enhanced_notes))
    /\ UNCHANGED <<pc, parseVars, projVars, chanVars, enhanced_notes,
                   all_notes, imgVars, llmVars>>

\* process_presentation_with_notes on the saved deck: the collaborator's
\* notes map, then add_speaker_notes_to_presentation unless the map is empty.
ProcessNotes ==
    /\ pc = "n_content"
    /\ Len(deck) = Len(slides_data) + 1
    /\ \E m \in NotesMaps :
          /\ all_notes' = m
          /\ deck' = IF m = <<>> THEN deck
                     ELSE add_speaker_notes_to_presentation(deck, m, cur_dir)
    /\ pc' = "n_done"
    /\ UNCHANGED <<parseVars, projVars, chanVars, enhanced_notes, imgVars, llmVars>>

NextNotes == CreateTitleSlide \/ CreateContentSlide \/ ProcessNotes

SpecNotes == InitNotes /\ [][NextNotes]_vars

\* ------------------------------------------------ the images of one deck
L_112D == <<"1", ".", "1", ".", "2", " ", "D">>

ImageFiles ==
    { <<W_K, L_1A, L_11C>>,
      <<W_K, L_1A, L_11C, L_111D>>,
      <<W_K, L_1A, L_11C, L_111D, L_112D>>,
      <<W_K, L_1A, L_11C, L_111D, L_2B, L_11C>> }

BatchSizes == {2, BATCH_SIZE}

InitImages ==
    /\ \E f \in ImageFiles : AfterProjection(f)
    /\ pc = "i_batch"
    /\ cur_dir = <<>>
    /\ ChanStart
    /\ NoteStart
    /\ batch_size \in BatchSizes
    /\ batch_start = 0
    /\ image_paths_by_title = <<>>
    /\ image_dir = <<>>
    /\ failed = {}
    /\ slide_to_image_map = <<>>
    /\ LlmStart

\* The image collaborator, as its interface says: the paths of the images it
\* generated, in request order, shorter than the request when some failed.
images_generated(batch, ok) == SelectSeq(batch, LAMBDA n : n \in ok)

\* generate_slide_images_parallel: one chunk of the loop.
GenerateImageBatch ==
    /\ pc = "i_batch"
    /\ batch_start < Len(slides_data)
    /\ LET batch == batch_positions(slides_data, batch_start, batch_size)
       IN  \E ok \in SUBSET {batch[j] : j \in 1..Len(batch)} :
              LET done == images_generated(batch, ok)
                  all_image_paths ==
                      [j \in 1..Len(done) |-> image_path_of(slides_data, done[j])]
              IN  /\ image_paths_by_title' =
                         associate(image_paths_by_title, slides_data, batch,
                                   all_image_paths, 1)
                  /\ image_dir' = write_files(image_dir, slides_data, done, 1)
                  /\ failed' = failed \cup ({batch[j] : j \in 1..Len(batch)} \ ok)
    /\ batch_start' = batch_start + batch_size
    /\ requests' =
          Append(requests,
                 image_request(batch_positions(slides_data, batch_start,
                                               batch_size)))
    /\ UNCHANGED <<pc, parseVars, projVars, chanVars, noteVars, batch_size,
                   slide_to_image_map, response, call_raised, notes_file,
                   prompt_cache, prompts_file,
                   lookups>>

\* generate_slide_images_parallel returns image_paths_by_title.
ImagesReturn ==
    /\ pc = "i_batch"
    /\ batch_start >= Len(slides_data)
    /\ pc' = "i_done"
    /\ UNCHANGED <<parseVars, projVars, chanVars, noteVars, imgVars, llmVars>>

\* main(): the slide-to-image map from the sorted listing of slide_images
\* (lines 1155-1166).
BuildSlideToImageMap ==
    /\ pc = "i_done"
    /\ slide_to_image_map' =
           map_by_position(<<>>, slides_data, sorted(Keys(image_dir)), 1)
    /\ pc' = "i_mapped"
    /\ UNCHANGED <<parseVars, projVars, chanVars, noteVars, batch_size,
                   batch_start, image_paths_by_title, image_dir, failed,
                   llmVars>>

\* main(): the snapshots of the saved deck (lines 1176-1183), made after the
\* images; which snapshots get written is up to the renderer.
GenerateDeckSnapshots ==
    /\ pc = "i_mapped"
    /\ \E ok \in SUBSET (0..Len(slides_data)) :
          /\ snapshot_paths' =
                generate_snapshots_for_presentation(
                    all_slides_data(slides_data), course_title, ok)
          /\ snapshot_dir' =
                snapshot_files(all_slides_data(slides_data), course_title, ok)
    /\ pc' = "i_snapshots"
    /\ UNCHANGED <<parseVars, projVars, cur_dir, markdown, slides_info,
                   info_raised, noteVars, imgVars, llmVars,
                   matches>>

NextImages ==
    \/ GenerateImageBatch \/ ImagesReturn \/ BuildSlideToImageMap
    \/ GenerateDeckSnapshots

SpecImages == InitImages /\ [][NextImages]_vars

\* --------------------------------------- the answers of the collaborator
LadderFiles == {<<W_K>>, <<W_K, L_1A, L_11C, L_111D>>}

\* The notes request: the slides of the outline, or none when the deck was
\* read instead and gave no slide.
InitLadder ==
    /\ \E f \in LadderFiles : AfterProjection(f)
    /\ pc = "l_file"
    /\ cur_dir \in {<<>>, <<<<"c","o","u","r","s","e","s">>, W_K>>}
    /\ snapshot_paths = <<>>
    /\ snapshot_dir = {}
    /\ matches = <<>>
    /\ markdown = <<>>
    /\ info_raised = FALSE
    /\ outline # <<>> => cur_dir = <<>>
    /\ slides_info \in
          {generate_slides_info_from_outline(outline, cur_dir).info}
              \cup (IF outline = <<>> THEN {<<>>} ELSE {})
    /\ NoteStart
    /\ ImgStart
    /\ response \in Responses
    /\ call_raised \in (IF response = <<>> THEN BOOLEAN ELSE {FALSE})
    /\ notes_file \in {<<response>>} \cup (IF response = <<>> THEN {<<>>} ELSE {})
    /\ prompt_cache = <<>>
    /\ prompts_file = <<>>
    /\ requests = <<>>
    /\ lookups = <<>>

\* main(): enhanced_notes = load_enhanced_notes(notes_file_path); a missing
\* file gives {}.
LoadEnhancedNotes ==
    /\ pc = "l_file"
    /\ enhanced_notes' =
          IF notes_file = <<>> THEN <<>> ELSE load_enhanced_notes(notes_file[1])
    /\ pc' = "l_prompts"
    /\ UNCHANGED <<parseVars, projVars, chanVars, deck, all_notes, imgVars,
                   llmVars>>

\* generate_slide_images_parallel, step 1: the prompts of all slides.
GenerateAllImagePrompts ==
    /\ pc = "l_prompts"
    /\ prompt_cache' =
          generate_all_image_prompts(slides_data, Len(slides_data), response,
                                     call_raised)
    /\ prompts_file' = saved_file(prompts_file, response, call_raised)
    /\ requests' = Append(requests, text_request("prompts"))
    /\ pc' = "l_notes"
    /\ UNCHANGED <<parseVars, projVars, chanVars, noteVars, imgVars, response,
                   call_raised, notes_file,
                   lookups>>

\* process_presentation_with_notes: all_notes = generate_all_speaker_notes(
\* slides_info, max_slides).
GenerateAllSpeakerNotes ==
    /\ pc = "l_notes"
    /\ all_notes' =
          generate_all_speaker_notes(slides_info, 0, cur_dir, response,
                                     call_raised)
    /\ notes_file' =
          IF notes_request(slides_info, 0, cur_dir) = <<>> THEN notes_file
          ELSE saved_file(notes_file, response, call_raised)
    /\ requests' =
          IF notes_request(slides_info, 0, cur_dir) = <<>> THEN requests
          ELSE Append(requests, text_request("notes"))
    /\ pc' = "l_done"
    /\ UNCHANGED <<parseVars, projVars, chanVars, enhanced_notes, deck, imgVars,
                   response, call_raised, prompt_cache, prompts_file,
                   lookups>>

NextLadder ==
    LoadEnhancedNotes \/ GenerateAllImagePrompts \/ GenerateAllSpeakerNotes

SpecLadder == InitLadder /\ [][NextLadder]_vars

\* ------------------------------- the side files of the two batch requests
\* What a side file holds from an earlier run.
OLD_TEXT == <<"o", "l", "d">>

SaveFiles == {<<W_K>>, <<W_K, L_1A, L_11C, L_111D>>}

InitSave ==
    /\ \E f \in SaveFiles : AfterProjection(f)
    /\ pc = "s_prompts_call"
    /\ cur_dir = <<>>
    /\ snapshot_paths = <<>>
    /\ snapshot_dir = {}
    /\ matches = <<>>
    /\ markdown = <<>>
    /\ info_raised = FALSE
    /\ slides_info = generate_slides_info_from_outline(outline, cur_dir).info
    /\ NoteStart
    /\ ImgStart
    /\ response \in Responses
    /\ call_raised \in (IF response = <<>> THEN BOOLEAN ELSE {FALSE})
    /\ notes_file \in {<<>>, <<OLD_TEXT>>}
    /\ prompts_file = notes_file
    /\ prompt_cache = <<>>
    /\ requests = <<>>
    /\ lookups = <<>>

\* generate_all_image_prompts up to the parse: the call and the save; a
\* call that raises goes to the fallback of the outer except.
CallForPrompts ==
    /\ pc = "s_prompts_call"
    /\ prompts_file' = saved_file(prompts_file, response, call_raised)
    /\ requests' = Append(requests, text_request("prompts"))
    /\ IF call_raised
       THEN /\ prompt_cache' =
                  generate_all_image_prompts(slides_data, Len(slides_data),
                                             response, TRUE)
            /\ pc' = "s_notes_call"
       ELSE /\ prompt_cache' = prompt_cache
            /\ pc' = "s_prompts_parse"
    /\ UNCHANGED <<parseVars, projVars, chanVars, noteVars, imgVars, response,
                   call_raised, notes_file,
                   lookups>>

\* generate_all_image_prompts from the parse on.
ParsePrompts ==
    /\ pc = "s_prompts_parse"
    /\ prompt_cache' =
          generate_all_image_prompts(slides_data, Len(slides_data), response,
                                     FALSE)
    /\ pc' = "s_notes_call"
    /\ UNCHANGED <<parseVars, projVars, chanVars, noteVars, imgVars, response,
                   call_raised, notes_file, prompts_file, requests,
                   lookups>>

\* generate_all_speaker_notes up to the parse: no request without slides,
\* else the call and the save.
CallForNotes ==
    /\ pc = "s_notes_call"
    /\ IF notes_request(slides_info, 0, cur_dir) = <<>> \/ call_raised
       THEN /\ all_notes' =
                  generate_all_speaker_notes(slides_info, 0, cur_dir, response,
                                             call_raised)
            /\ notes_file' = notes_file
            /\ pc' = "s_done"
       ELSE /\ all_notes' = all_notes
            /\ notes_file' = saved_file(notes_file, response, FALSE)
            /\ pc' = "s_notes_parse"
    /\ requests' =
          IF notes_request(slides_info, 0, cur_dir) = <<>> THEN requests
          ELSE Append(requests, text_request("notes"))
    /\ UNCHANGED <<parseVars, projVars, chanVars, enhanced_notes, deck, imgVars,
                   response, call_raised, prompt_cache, prompts_file,
                   lookups>>

\* generate_all_speaker_notes from the parse on.
ParseNotes ==
    /\ pc = "s_notes_parse"
    /\ all_notes' =
          generate_all_speaker_notes(slides_info, 0, cur_dir, response, FALSE)
    /\ pc' = "s_done"
    /\ UNCHANGED <<parseVars, projVars, chanVars, enhanced_notes, deck, imgVars,
                   llmVars>>

NextSave == CallForPrompts \/ ParsePrompts \/ CallForNotes \/ ParseNotes

SpecSave == InitSave /\ [][NextSave]_vars

\* ---------------------------------- the requests of one run of main()
L_dotZ == <<".", " ", "Z">>

RequestFiles ==
    { <<W_K, L_1A>>,
      <<W_K, L_1A, L_11C>>,
      <<W_K, L_1A, L_11C, L_111D>>,
      <<W_K, L_1A, L_11C, L_111D, L_112D>>,
      <<W_K, L_1A, L_11C, L_111D, L_2B, L_11C>>,
      <<W_K, L_1A, L_11C, L_dotZ, L_2B, L_11C>> }

RequestCaps == {2, MAX_SLIDES_TO_PROCESS - 1}

RequestAnswers == {<<>>, P_OBJECT}

\* main() after parse_outline and prepare_slides_data(outline_data, k)
\* returned; a run whose prepare_slides_data raised makes no deck.
InitRequests ==
    /\ \E f \in RequestFiles, k \in RequestCaps :
          LET st == parse_lines(EmptyState, title_step(f).lines)
              r == prepare_slides_data(st.outline, k)
          IN  /\ ~r.raised
              /\ file = f
              /\ course_title = title_step(f).course_title
              /\ lines = <<>>
              /\ all_content = <<>>
              /\ outline = st.outline
              /\ current_module = st.current_module
              /\ current_topic = st.current_topic
              /\ current_subtopic = st.current_subtopic
              /\ max_slides = k
              /\ slides_data = r.slides
              /\ raised = FALSE
    /\ pc = "q_prompts"
    /\ cur_dir \in {<<>>, <<<<"c","o","u","r","s","e","s">>, W_K>>}
    /\ ChanStart
    /\ NoteStart
    /\ batch_size \in BatchSizes
    /\ batch_start = 0
    /\ image_paths_by_title = <<>>
    /\ image_dir = <<>>
    /\ failed = {}
    /\ slide_to_image_map = <<>>
    /\ response \in RequestAnswers
    /\ call_raised \in (IF response = <<>> THEN BOOLEAN ELSE {FALSE})
    /\ notes_file = <<>>
    /\ prompt_cache = <<>>
    /\ prompts_file = <<>>
    /\ requests = <<>>
    /\ lookups = <<>>

\* generate_slide_images_parallel, step 1 (line 835): the one call of
\* generate_all_image_prompts, made for every number of slides.
RequestImagePrompts ==
    /\ pc = "q_prompts"
    /\ prompt_cache' =
          generate_all_image_prompts(slides_data, Len(slides_data), response,
                                     call_raised)
    /\ prompts_file' = saved_file(prompts_file, response, call_raised)
    /\ requests' = Append(requests, text_request("prompts"))
    /\ pc' = "i_batch"
    /\ UNCHANGED <<parseVars, projVars, chanVars, noteVars, imgVars, response,
                   call_raised, notes_file,
                   lookups>>

\* main(), lines 1197-1209: process_presentation_with_notes with the
\* outline.  An IndexError of generate_slides_info_from_outline is caught by
\* main() and no request is made.
RequestSpeakerNotes ==
    /\ pc = "i_done"
    /\ outline # <<>>
    /\ LET r == generate_slides_info_from_outline(outline, cur_dir)
       IN  /\ info_raised' = r.raised
           /\ slides_info' = (IF r.raised THEN <<>> ELSE r.info)
           /\ all_notes' =
                 IF r.raised THEN all_notes
                 ELSE generate_all_speaker_notes(r.info, 0, cur_dir, response,
                                                 call_raised)
           /\ notes_file' =
                 IF r.raised \/ notes_request(r.info, 0, cur_dir) = <<>>
                 THEN notes_file
                 ELSE saved_file(notes_file, response, call_raised)
           /\ requests' =
                 IF r.raised \/ notes_request(r.info, 0, cur_dir) = <<>>
                 THEN requests
                 ELSE Append(requests, text_request("notes"))
    /\ pc' = "q_done"
    /\ UNCHANGED <<parseVars, projVars, cur_dir, snapshot_paths, markdown,
                   enhanced_notes, deck, imgVars, response, call_raised,
                   prompt_cache, prompts_file,
                   lookups,
                   snapshot_dir, matches>>

NextRequests ==
    \/ RequestImagePrompts \/ GenerateImageBatch \/ ImagesReturn
    \/ RequestSpeakerNotes

SpecRequests == InitRequests /\ [][NextRequests]_vars

\* ------------------------------------------ lookups in the artifact maps
MaxLookups == 2

LookupFiles == {<<W_K>>, <<W_K, L_1A, L_11C, L_111D>>}

LookupTitles ==
    { <<"Z">>, <<"1",".","1",":"," ","C">>,
      <<"M","o","d","u","l","e"," ","1",":"," ","A">> }

\* The maps as the two batch requests built them: the prompts from an
\* answer, the notes map of at most one entry, the enhanced notes the same
\* entries as loaded from the notes file.
InitLookups ==
    /\ \E f \in LookupFiles : AfterProjection(f)
    /\ pc = "k_lookup"
    /\ cur_dir = <<>>
    /\ ChanStart
    /\ ImgStart
    /\ deck = <<>>
    /\ \E m \in {n \in NotesMaps : Len(n) <= 1} :
          /\ all_notes = m
          /\ enhanced_notes = [i \in 1..Len(m) |-> TwoParagraphs(m[i])]
    /\ response \in RequestAnswers
    /\ call_raised = FALSE
    /\ notes_file = <<>>
    /\ prompts_file = <<>>
    /\ prompt_cache =
          generate_all_image_prompts(slides_data, Len(slides_data), response,
                                     call_raised)
    /\ requests = <<>>
    /\ lookups = <<>>

lookup(by, title, text) == [by |-> by, title |-> title, text |-> text]

\* generate_slide_images_parallel, line 852: the prompt of one slide.
GetEnhancedPrompt ==
    /\ Len(lookups) < MaxLookups
    /\ \E t \in LookupTitles :
          LET r == get_enhanced_prompt(t, prompt_cache)
          IN  /\ prompt_cache' = r.prompt_cache
              /\ lookups' = Append(lookups,
                                   lookup("get_enhanced_prompt", t, <<r.prompt>>))
    /\ UNCHANGED <<pc, parseVars, projVars, chanVars, noteVars, imgVars,
                   response, call_raised, notes_file, prompts_file, requests>>

\* get_speaker_notes(slide_title) on the notes map.
GetSpeakerNotes ==
    /\ Len(lookups) < MaxLookups
    /\ \E t \in LookupTitles :
          lookups' = Append(lookups,
                            lookup("get_speaker_notes", t,
                                   <<get_speaker_notes(t, all_notes)>>))
    /\ UNCHANGED <<pc, parseVars, projVars, chanVars, noteVars, imgVars,
                   response, call_raised, notes_file, prompt_cache,
                   prompts_file, requests>>

\* create_content_slide, lines 553-586: the notes it resolves for a title.
ResolveContentNotes ==
    /\ Len(lookups) < MaxLookups
    /\ \E t \in LookupTitles :
          lookups' = Append(lookups,
                            lookup("create_content_slide", t,
                                   create_content_slide(t, <<>>, enhanced_notes).notes))
    /\ UNCHANGED <<pc, parseVars, projVars, chanVars, noteVars, imgVars,
                   response, call_raised, notes_file, prompt_cache,
                   prompts_file, requests>>

\* create_title_slide, lines 405-455: the notes it resolves for the course.
ResolveTitleNotes ==
    /\ Len(lookups) < MaxLookups
    /\ lookups' = Append(lookups,
                         lookup("create_title_slide", course_title,
                                create_title_slide(course_title, enhanced_notes).notes))
    /\ UNCHANGED <<pc, parseVars, projVars, chanVars, noteVars, imgVars,
                   response, call_raised, notes_file, prompt_cache,
                   prompts_file, requests>>

NextLookups ==
    \/ GetEnhancedPrompt \/ GetSpeakerNotes
    \/ ResolveContentNotes \/ ResolveTitleNotes

SpecLookups == InitLookups /\ [][NextLookups]_vars

\* ------------------------------------------- the parser of the exam stage
X_M1 == <<"1", ".", "M", "o", "d", "u", "l", "e", " ", "A">>
X_M2 == <<"2", ".", "M", "o", "d", "u", "l", "e", " ", "B">>
X_NOTE == <<"n", "o", "t", "e">>
X_INDENTED == <<" ", "1", ".", "1", " ", "C", " ">>

ExamPool ==
    {L_BLANK, X_M1, X_M2, L_11C, L_111D, L_1111E, X_NOTE, X_INDENTED}

ExamFiles ==
    {<<W_K>> \o f : f \in SeqsUpTo(ExamPool, MaxLines)}
        \cup {<<X_M1, L_11C>>, <<>>}

InitExam ==
    /\ file \in ExamFiles
    /\ pc = "x_start"
    /\ course_title = DEFAULT_TITLE
    /\ lines = <<>>
    /\ outline = <<>>
    /\ current_module = None
    /\ current_topic = None
    /\ current_subtopic = None
    /\ all_content = <<>>
    /\ ProjStart
    /\ cur_dir = <<>>
    /\ ChanStart
    /\ NoteStart
    /\ ImgStart
    /\ LlmStart

\* parse_outline up to the loop: the title line, all_content = [course_title].
ExamReadTitle ==
    /\ pc = "x_start"
    /\ course_title' = title_step(file).course_title
    /\ lines' = title_step(file).lines
    /\ all_content' = <<title_step(file).course_title>>
    /\ pc' = "x_parse"
    /\ UNCHANGED <<file, outline, current_module, current_topic,
                   current_subtopic, projVars, chanVars, noteVars, imgVars,
                   llmVars>>

\* One iteration of the loop over the lines.
ExamParseLine ==
    /\ pc = "x_parse"
    /\ lines # <<>>
    /\ LET st == exam_line_step(
                    [outline |-> outline, current_module |-> current_module,
                     current_topic |-> current_topic,
                     current_subtopic |-> current_subtopic,
                     all_content |-> all_content], Head(lines))
       IN  /\ outline' = st.outline
           /\ current_module' = st.current_module
           /\ current_topic' = st.current_topic
           /\ current_subtopic' = st.current_subtopic
           /\ all_content' = st.all_content
    /\ lines' = Tail(lines)
    /\ UNCHANGED <<file, pc, course_title, projVars, chanVars, noteVars,
                   imgVars, llmVars>>

\* return outline, course_title, all_content
ExamParseReturn ==
    /\ pc = "x_parse"
    /\ lines = <<>>
    /\ pc' = "x_parsed"
    /\ UNCHANGED <<parseVars, projVars, chanVars, noteVars, imgVars, llmVars>>

NextExam == ExamReadTitle \/ ExamParseLine \/ ExamParseReturn

SpecExam == InitExam /\ [][NextExam]_vars

\* ------------------------------------------- from the deck to the video
L_21C == <<"2", ".", "1", " ", "C">>

VideoFiles ==
    { <<W_K, L_1A, L_11C>>,
      <<W_K, L_1A, L_11C, L_111D>>,
      <<W_K, L_1A, L_2B, L_21C>>,
      <<W_K, L_1A, L_11C, L_2B, L_21C>> }

InitVideo ==
    /\ \E f \in VideoFiles, k \in RequestCaps :
          LET st == parse_lines(EmptyState, title_step(f).lines)
              r == prepare_slides_data(st.outline, k)
          IN  /\ ~r.raised
              /\ file = f
              /\ course_title = title_step(f).course_title
              /\ lines = <<>>
              /\ all_content = <<>>
              /\ outline = st.outline
              /\ current_module = st.current_module
              /\ current_topic = st.current_topic
              /\ current_subtopic = st.current_subtopic
              /\ max_slides = k
              /\ slides_data = r.slides
              /\ raised = FALSE
    /\ pc = "projected"
    /\ cur_dir \in {<<>>, <<<<"c","o","u","r","s","e","s">>, W_K>>}
    /\ ChanStart
    /\ NoteStart
    /\ ImgStart
    /\ LlmStart

\* process_presentation_with_notes from the request on: the collaborator
\* answers with an entry per requested title, the answer is saved and parsed.
SpeakerNotesAnswered ==
    /\ pc = "notes_request"
    /\ ~info_raised
    /\ notes_request(slides_info, 0, cur_dir) # <<>>
    /\ LET answer == echo_answer(notes_request(slides_info, 0, cur_dir))
       IN  /\ response' = answer
           /\ notes_file' = saved_file(notes_file, answer, FALSE)
           /\ all_notes' =
                 generate_all_speaker_notes(slides_info, 0, cur_dir, answer,
                                            FALSE)
    /\ requests' = Append(requests, text_request("notes"))
    /\ pc' = "v_match"
    /\ UNCHANGED <<parseVars, projVars, chanVars, enhanced_notes, deck, imgVars,
                   call_raised, prompt_cache, prompts_file, lookups>>

\* a10 main(), lines 759-777: the snapshots found, the notes loaded, the
\* pairs made; no pairs when there is no snapshot.
MatchSlidesToNotes ==
    /\ pc = "v_match"
    /\ matches' =
          match_slides_to_notes(
              extract_slides_as_images(snapshot_dir),
              IF notes_file = <<>> THEN <<>>
              ELSE load_speaker_notes(notes_file[1]))
    /\ pc' = "v_done"
    /\ UNCHANGED <<parseVars, projVars, cur_dir, snapshot_paths, markdown,
                   slides_info, info_raised, snapshot_dir, noteVars, imgVars,
                   llmVars>>

NextVideo ==
    \/ GenerateSnapshots \/ GenerateMarkdown \/ GenerateSlidesInfo
    \/ SpeakerNotesAnswered \/ MatchSlidesToNotes

SpecVideo == InitVideo /\ [][NextVideo]_vars

\* ------------------------------------------------------- shared vocabulary
PROJECTED == pc = "projected"

Modules == {outline[i] : i \in 1..Len(outline)}

\* A module, topic and subtopic title per node of the tree, in depth-first
\* pre-order over the stored order; leaveOut decides which modules (with
\* their subtrees) are left out.
FlatSubtopics(subs) ==
    [i \in 1..Len(subs) |-> [type |-> "subtopic", title |-> subs[i].val.title]]

RECURSIVE FlatTopics(_, _)
FlatTopics(topics, i) ==
    IF i > Len(topics) THEN <<>>
    ELSE <<[type |-> "topic", title |-> topics[i].val.title]>>
         \o FlatSubtopics(topics[i].val.subtopics)
         \o FlatTopics(topics, i + 1)

RECURSIVE FlatModules(_, _, _)
FlatModules(o, i, skipEmpty) ==
    IF i > Len(o) THEN <<>>
    ELSE (IF skipEmpty /\ o[i].val.topics = <<>> THEN <<>>
          ELSE <<[type |-> "module", title |-> o[i].val.title]>>
               \o FlatTopics(o[i].val.topics, 1))
         \o FlatModules(o, i + 1, skipEmpty)

EndsWith(s, t) == Len(s) >= Len(t) /\ SubSeq(s, Len(s) - Len(t) + 1, Len(s)) = t

\* The slides are, one for one and in order, the slides of the given nodes.
SlidesShow(slides, nodes) ==
    /\ Len(slides) = Len(nodes)
    /\ \A i \in 1..Len(slides) :
          /\ slides[i].type = nodes[i].type
          /\ EndsWith(slides[i].title, nodes[i].title)

NodeCount(o) == Len(FlatModules(o, 1, FALSE))

Prefix(q, n) == SubSeq(q, 1, IF n < Len(q) THEN n ELSE Len(q))

\* ----------------------------------------------------------------------- C1
W_Security == <<"S","e","c","u","r","i","t","y">>
W_Basics == <<"B","a","s","i","c","s">>
W_Intro == <<"I","n","t","r","o">>
W_PointA == <<"P","o","i","n","t"," ","A">>
W_PointB == <<"P","o","i","n","t"," ","B">>

ScenarioTree(o) ==
    /\ Len(o) = 1
    /\ o[1].val.title = W_Security
    /\ Len(o[1].val.topics) = 1
    /\ o[1].val.topics[1].val.title = W_Basics
    /\ Len(o[1].val.topics[1].val.subtopics) = 1
    /\ o[1].val.topics[1].val.subtopics[1].val.title = W_Intro
    /\ o[1].val.topics[1].val.subtopics[1].val.points = <<W_PointA, W_PointB>>

\* C1: the worked example "AI 101 / 1. Security / 1.1 Basics / 1.1.1 Intro /
\* 1.1.1.1 Point A / 1.1.1.2 Point B" parses to exactly one Module "Security"
\* with one Topic "Basics", one Subtopic "Intro" and the two points, because
\* the token "1." counts as a module token (trailing dot stripped before the
\* dots are counted).
C1_ScenarioParsesToOneModule ==
    (pc = "parsed" /\ file = ScenarioFile) => ScenarioTree(outline)

\* ----------------------------------------------------------------------- C2
\* A dot-separated sequence of integers, a trailing dot allowed.
IsDottedInts(token) ==
    LET t == IF token # <<>> /\ token[Len(token)] = "."
             THEN SubSeq(token, 1, Len(token) - 1) ELSE token
    IN  /\ t # <<>>
        /\ \A i \in 1..Len(t) : t[i] \in Digits \cup {"."}
        /\ t[1] # "." /\ t[Len(t)] # "."
        /\ \A i \in 1..(Len(t) - 1) : ~(t[i] = "." /\ t[i + 1] = ".")

LeadingToken(raw) == Split1(Strip(raw), " ")[1]

\* C2: a line whose leading token is not a dot-separated sequence of integers
\* adds nothing to the tree and leaves the three cursors unchanged.
C2_NonIntegerTokenChangesNothing ==
    [][(pc = "parse" /\ lines # <<>> /\ ~IsDottedInts(LeadingToken(Head(lines))))
         => UNCHANGED <<outline, current_module, current_topic,
                        current_subtopic>>]_vars

\* ----------------------------------------------------------------------- C3
HasNonEmptyLine(f) == \E i \in 1..Len(f) : Strip(f[i]) # <<>>

FirstNonEmpty(f) ==
    CHOOSE i \in 1..Len(f) :
        Strip(f[i]) # <<>> /\ \A j \in 1..(i - 1) : Strip(f[j]) = <<>>

LooksLikeLevel1(line) ==
    StartsWith(line, <<"1", ".">>) \/ StartsWith(line, <<"1", " ">>)

\* C3: course_title is the first non-empty line, which is then not classified,
\* unless that line starts with "1." or "1 ": then the title is the default
\* and the line is classified as an outline line.
C3_TitleIsFirstNonEmptyLine ==
    (pc = "parsed" /\ HasNonEmptyLine(file)) =>
        LET i == FirstNonEmpty(file)
            first == Strip(file[i])
        IN  IF LooksLikeLevel1(first)
            THEN /\ course_title = DEFAULT_TITLE
                 /\ outline = parse_lines(EmptyState, SubSeq(file, i, Len(file))).outline
            ELSE /\ course_title = first
                 /\ outline = parse_lines(EmptyState, SubSeq(file, i + 1, Len(file))).outline

C5_AtMostMaxSlides ==
    (PROJECTED /\ ~raised /\ max_slides >= 0) => Len(slides_data) <= max_slides

\* ----------------------------------------------------------------------- C6
Uncapped(o) == prepare_slides_data(o, MAX_SLIDES_TO_PROCESS - 1)

HasModuleWithTopics(o) == \E i \in 1..Len(o) : o[i].val.topics # <<>>

FirstModuleWithTopics(o) ==
    o[CHOOSE i \in 1..Len(o) :
          o[i].val.topics # <<>> /\ \A j \in 1..(i - 1) : o[j].val.topics = <<>>]

IsPrefixOfUncapped ==
    slides_data = Prefix(Uncapped(outline).slides, max_slides)

RequestTitles == {slides_info[i].title : i \in 1..Len(slides_info)}

MarkdownPaths ==
    {markdown[i].path : i \in {j \in 1..Len(markdown) : markdown[j].kind = "image"}}

\* C7: the titles of the notes batch request and the titles under which
\* generate_markdown looks up snapshots are the titles prepare_slides_data
\* emits: every slide's title is a title of the request, and every slide
\* with a snapshot in the map has its image line in the markdown.
C7_ChannelsShareTheSlideTitles ==
    (pc = "notes_request" /\ ~info_raised) =>
        /\ \A i \in 1..Len(slides_data) : slides_data[i].title \in RequestTitles
        /\ \A i \in 1..Len(slides_data) :
              HasKey(snapshot_paths, slides_data[i].title) =>
                  Get(snapshot_paths, slides_data[i].title) \in MarkdownPaths

\* C8: every content slide ends its creation with notes set: the mapped text
\* when the notes map holds the slide's title, a synthesized text otherwise,
\* also for the empty map.
C8_EveryContentSlideHasNotes ==
    pc = "n_content" =>
        \A i \in 2..Len(deck) :
            LET title == slides_data[i - 1].title
            IN  /\ deck[i].notes # <<>>
                /\ HasKey(enhanced_notes, title)
                      => deck[i].notes = <<Get(enhanced_notes, title)>>

\* The notes are the text, followed at most by paragraphs left empty.
NotesAre(slide, text) ==
    /\ slide.notes # <<>>
    /\ StartsWith(slide.notes[1], text)
    /\ \A k \in (Len(text) + 1)..Len(slide.notes[1]) : slide.notes[1][k] = "\n"

\* The title-slide lookup matches neither the title nor a known variant.
NoVariantMatches(notes) == FirstHit(course_variants(course_title), notes) = 0

UniqueTitle(i) ==
    \A j \in 1..Len(slides_data) :
        slides_data[j].title = slides_data[i].title => j = i

\* The map gives exactly the slides whose image was generated an entry, each
\* the slide's own target path.
OwnImages(m) ==
    \A i \in 1..Len(slides_data) :
        UniqueTitle(i) =>
            IF i \in failed THEN ~HasKey(m, slides_data[i].title)
            ELSE /\ HasKey(m, slides_data[i].title)
                 /\ Get(m, slides_data[i].title) = image_path_of(slides_data, i)

\* C10: when the image of some slides fails, exactly those slides have no
\* entry in the title-to-image map and every other slide is mapped to the
\* image at its own target path; the same for the slide-to-image map built
\* from the sorted listing of the image directory.
C10_FailedSlidesAloneLackAnImage ==
    /\ pc \in {"i_done", "i_mapped"} => OwnImages(image_paths_by_title)
    /\ pc = "i_mapped" => OwnImages(slide_to_image_map)

\* The texts that the response wraps in a json fence and a closing fence,
\* with or without line breaks inside the fences.
Unwrapped(r) ==
    LET mid == SubSeq(r, 8, Len(r) - 3)
    IN  IF Len(r) >= 10 /\ StartsWith(r, FENCE_JSON) /\ EndsWith(r, FENCE)
        THEN {mid} \cup
             (IF Len(mid) >= 2 /\ mid[1] = "\n" /\ mid[Len(mid)] = "\n"
              THEN {SubSeq(mid, 2, Len(mid) - 1)} ELSE {})
        ELSE {}

\* The three readers of a collaborator answer gave this map.
AllRead(m) == enhanced_notes = m /\ prompt_cache = m /\ all_notes = m

\* C11: an answer that is valid JSON as a whole is read as exactly that
\* object by every reader, whatever its strings contain, and a JSON object
\* inside json fencing is read as the same object unwrapped.
C11_VerbatimFirstThenFence ==
    (pc = "l_done" /\ ~call_raised /\ notes_file # <<>> /\ slides_info # <<>>) =>
        /\ json_loads(response).ok => AllRead(json_loads(response).val)
        /\ \A inner \in Unwrapped(response) :
              json_loads(inner).ok => AllRead(json_loads(inner).val)

KeySet(m) == {m[i].key : i \in 1..Len(m)}
TitleSet(info) == {info[i].title : i \in 1..Len(info)}

\* The map has exactly the requested titles as keys and no empty text.
CoversRequest(m, info) ==
    /\ KeySet(m) = TitleSet(info)
    /\ \A i \in 1..Len(m) : m[i].val # <<>>

PromptParseFails == ~json_loads(clean_json_response(response)).ok
NotesParseFails == ~json_loads(brace_step(fence_step(response))).ok

\* C12: when the call raises or the answer does not parse, the prompt map
\* and the notes map returned hold one non-empty fallback text for each
\* requested slide title and nothing else.
C12_FallbackCoversTheRequest ==
    /\ (pc \in {"l_notes", "l_done"} /\ (call_raised \/ PromptParseFails))
          => CoversRequest(prompt_cache,
                           extract_slide_info(slides_data, Len(slides_data)))
    /\ (pc = "l_done" /\ (call_raised \/ NotesParseFails))
          => CoversRequest(all_notes, slides_to_annotate(slides_info, cur_dir))

\* An answer that does not parse met a request of three slides.
C12_Witness ==
    /\ pc = "l_done"
    /\ ~call_raised
    /\ response # <<>>
    /\ PromptParseFails /\ NotesParseFails
    /\ Len(slides_data) = 3 /\ Len(prompt_cache) = 3
    /\ Len(slides_info) = 3 /\ Len(all_notes) = 3

\* ---------------------------------------------------------------------- C13
\* The line as the loop sees it: stripped, cut at the first space.
LineParts(raw) == Split1(Strip(raw), " ")

\* The level the classifier gives a line: by the dots of its leading token.
LineKind(raw) ==
    LET parts == LineParts(raw)
    IN  IF Strip(raw) = <<>> \/ Len(parts) < 2 THEN "other"
        ELSE LET n == num_dots_of(parts[1])
             IN  IF n = 0 /\ IsDigit(RStripDot(parts[1])) THEN "module"
                 ELSE IF n = 1 THEN "topic"
                 ELSE IF n = 2 THEN "subtopic"
                 ELSE IF n = 3 THEN "point"
                 ELSE "other"

LineNumber(raw) == RStripDot(LineParts(raw)[1])
LineTitle(raw) == Strip(LineParts(raw)[2])

AtLine(kind) == pc = "parse" /\ lines # <<>> /\ LineKind(Head(lines)) = kind

\* C13: a Topic line seen while no module cursor is active creates the module
\* "Module 1" titled "Main Module", makes it the active module and stores the
\* topic in it whatever the topic's number; a Topic line seen while a module
\* cursor is active, the placeholder included, adds no module and is stored
\* in the active one.
C13_OrphanTopicGetsMainModule ==
    [][AtLine("topic") =>
         LET raw == Head(lines)
             key == TOPIC_PREFIX \o LineNumber(raw)
             entry == [title |-> LineTitle(raw), subtopics |-> <<>>]
         IN  /\ current_topic' = key
             /\ IF current_module = None
                THEN /\ current_module' = DEFAULT_MODULE_KEY
                     /\ Keys(outline') = <<DEFAULT_MODULE_KEY>>
                     /\ outline'[1].val.title = MAIN_MODULE
                     /\ outline'[1].val.topics = <<[key |-> key, val |-> entry]>>
                ELSE /\ current_module' = current_module
                     /\ Keys(outline') = Keys(outline)
                     /\ HasKey(Get(outline', current_module).topics, key)
                     /\ Get(Get(outline', current_module).topics, key) = entry
                     /\ \A i \in 1..Len(outline) :
                           outline[i].key # current_module
                               => outline'[i] = outline[i]]_vars

\* Two topic lines before any module line, numbered 2.1 and 1.1, end in the
\* one placeholder module.
C13_Witness ==
    /\ pc = "parsed"
    /\ Keys(outline) = <<DEFAULT_MODULE_KEY>>
    /\ outline[1].val.title = MAIN_MODULE
    /\ Keys(outline[1].val.topics) =
           <<TOPIC_PREFIX \o <<"2", ".", "1">>, TOPIC_PREFIX \o <<"1", ".", "1">> >>

\* ---------------------------------------------------------------------- C14
\* The index of the last dot of a number; 0 when it has none.
LastDot(number) ==
    IF \E i \in 1..Len(number) : number[i] = "."
    THEN CHOOSE i \in 1..Len(number) :
            number[i] = "." /\ \A j \in (i + 1)..Len(number) : number[j] # "."
    ELSE 0

\* a.b of a.b.c: the number without its last segment.
WithoutLastSegment(number) == SubSeq(number, 1, LastDot(number) - 1)

\* a of a.b.c: the first segment.
FirstSegment(number) == SplitHead(number, ".")

\* Integers separated by single dots, no dot at either end: N, a.b, a.b.c.
IsIntegerNumber(token) ==
    /\ token # <<>>
    /\ \A i \in 1..Len(token) : token[i] \in Digits \cup {"."}
    /\ token[1] # "." /\ token[Len(token)] # "."
    /\ \A i \in 1..(Len(token) - 1) : ~(token[i] = "." /\ token[i + 1] = ".")

EmptyAfterTitle(f) ==
    \A i \in 1..Len(title_step(f).lines) : Strip(title_step(f).lines[i]) = <<>>

RETURNED == pc \in {"parsed", "projected"}

NumberOfKey(key, word) == SubSeq(key, Len(word) + 1, Len(key))

COLON == <<":", " ">>

\* What the slide of each node is to show, in depth-first pre-order over
\* the modules that have topics: "Module N: T" with the titles of the
\* topics, "N.M: T" with the titles of the subtopics, "T" with the points.
ExpectedSubtopics(subs) ==
    [i \in 1..Len(subs) |->
        [type |-> "subtopic",
         title |-> subs[i].val.title,
         content |-> subs[i].val.points]]

RECURSIVE ExpectedTopics(_, _)
ExpectedTopics(topics, i) ==
    IF i > Len(topics) THEN <<>>
    ELSE <<[type |-> "topic",
            title |-> NumberOfKey(topics[i].key, TOPIC_PREFIX) \o COLON
                        \o topics[i].val.title,
            content |-> [j \in 1..Len(topics[i].val.subtopics) |->
                            topics[i].val.subtopics[j].val.title]]>>
         \o ExpectedSubtopics(topics[i].val.subtopics)
         \o ExpectedTopics(topics, i + 1)

RECURSIVE ExpectedModules(_, _)
ExpectedModules(o, i) ==
    IF i > Len(o) THEN <<>>
    ELSE (IF o[i].val.topics = <<>> THEN <<>>
          ELSE <<[type |-> "module",
                  title |-> MODULE_PREFIX \o NumberOfKey(o[i].key, MODULE_PREFIX)
                              \o COLON \o o[i].val.title,
                  content |-> [j \in 1..Len(o[i].val.topics) |->
                                  o[i].val.topics[j].val.title]]>>
               \o ExpectedTopics(o[i].val.topics, 1))
         \o ExpectedModules(o, i + 1)

\* C16: whenever the projection returns, every slide carries the title of
\* its level's format: "Module N: T" for a module numbered N, "N.M: T" for a
\* topic numbered N.M, exactly "T" for a subtopic; placeholder parents get
\* the same formats.
C16_SlideTitlesHaveTheLevelFormat ==
    (PROJECTED /\ ~raised) =>
        /\ Len(slides_data) <= Len(ExpectedModules(outline, 1))
        /\ \A i \in 1..Len(slides_data) :
              /\ slides_data[i].type = ExpectedModules(outline, 1)[i].type
              /\ slides_data[i].title = ExpectedModules(outline, 1)[i].title

\* The subtopic line 3.2.1 S alone: the slides of the two placeholder
\* parents and of the subtopic.
C16_Witness ==
    /\ PROJECTED /\ ~raised
    /\ Len(slides_data) = 3
    /\ slides_data[1].title = DEFAULT_MODULE_KEY \o COLON \o MAIN_MODULE
    /\ slides_data[2].title = <<"3", ".", "1">> \o COLON \o MAIN_TOPIC
    /\ slides_data[3].title = <<"S">>

\* ---------------------------------------------------------------------- C17
\* C17: whenever the projection returns, every slide's content is the list
\* of its node's children in stored order, each child once: the titles of
\* all topics of the module, the titles of all subtopics of the topic, the
\* points of the subtopic; the lists are whole whatever max_slides is.
C17_SlideContentListsAllChildren ==
    (PROJECTED /\ ~raised) =>
        /\ Len(slides_data) <= Len(ExpectedModules(outline, 1))
        /\ \A i \in 1..Len(slides_data) :
              /\ slides_data[i].type = ExpectedModules(outline, 1)[i].type
              /\ slides_data[i].content = ExpectedModules(outline, 1)[i].content

\* max_slides 1 leaves the module slide alone, with both its topics listed.
C17_Witness ==
    /\ PROJECTED /\ ~raised
    /\ max_slides = 1
    /\ Len(slides_data) = 1
    /\ slides_data[1].type = "module"
    /\ Len(slides_data[1].content) = 2
    /\ Len(ExpectedModules(outline, 1)) > 3

\* ---------------------------------------------------------------------- C18
\* The snapshot file names in emission order, the title snapshot first.
SnapshotNames ==
    <<TITLE_SNAPSHOT>>
        \o [i \in 1..Len(slides_data) |->
               snapshot_filename(all_slides_data(slides_data), i)]

\* The slide image file names in emission order.
ImageNames == [i \in 1..Len(slides_data) |-> image_path_of(slides_data, i)]

\* Sorting the names gives them back in the order of the sequence.
SortsInOrder(names) ==
    \A i, j \in 1..Len(names) : i < j => LexLess(names[i], names[j])

\* C18: sorting the file names lexicographically reconstructs presentation
\* order: the title snapshot sorts before every content snapshot, and the
\* content snapshots and the slide images sort in the order in which the
\* slides were emitted.
C18_FileNamesSortInEmissionOrder ==
    pc = "snapshots" => SortsInOrder(SnapshotNames) /\ SortsInOrder(ImageNames)

\* ---------------------------------------------------------------------- C19
\* The lines the loop has taken so far.
Processed ==
    SubSeq(title_step(file).lines, 1, Len(title_step(file).lines) - Len(lines))

\* The position of the latest Subtopic line that no Module or Topic line
\* follows; 0 when there is none.
SubtopicInForce(hist) ==
    LET live == {j \in 1..Len(hist) :
                    /\ LineKind(hist[j]) = "subtopic"
                    /\ \A k \in (j + 1)..Len(hist) :
                          LineKind(hist[k]) \notin {"module", "topic"}}
    IN  IF live = {} THEN 0
        ELSE CHOOSE j \in live : \A k \in live : k <= j

PointsAt(o, cm, ct, cs) == Get(Get(Get(o, cm).topics, ct).subtopics, cs).points

\* C19: lines attach by cursor.  A Point line is stored exactly when a
\* Subtopic line has occurred since the latest Module or Topic line, and it
\* is then appended to the points of that latest Subtopic line, whatever
\* its own number; otherwise it changes nothing.  A Topic line empties the
\* subtopic cursor, a Module line empties the topic and subtopic cursors.
\* The kind of a line is the one the classifier gives it.
C19_LinesAttachByCursor ==
    [][(pc = "parse" /\ lines # <<>>) =>
         LET raw == Head(lines)
             j == SubtopicInForce(Processed)
         IN  /\ LineKind(raw) = "point" =>
                   IF j = 0
                   THEN UNCHANGED <<outline, current_module, current_topic,
                                    current_subtopic>>
                   ELSE /\ current_subtopic =
                              SUBTOPIC_PREFIX \o LineNumber(Processed[j])
                        /\ UNCHANGED <<current_module, current_topic,
                                       current_subtopic>>
                        /\ PointsAt(outline', current_module, current_topic,
                                    current_subtopic)
                             = Append(PointsAt(outline, current_module,
                                               current_topic, current_subtopic),
                                      LineTitle(raw))
             /\ LineKind(raw) = "topic" => current_subtopic' = None
             /\ LineKind(raw) = "module" =>
                   current_topic' = None /\ current_subtopic' = None]_vars

\* The point 9.9.9.9 P sits under Subtopic 1.1.1 of Topic 1.1; the point
\* 1.1.1.1 E after the topic line 1.2 H is nowhere.
C19_Witness ==
    /\ pc = "parsed"
    /\ Len(outline) = 1
    /\ Keys(outline[1].val.topics) =
           <<TOPIC_PREFIX \o <<"1", ".", "1">>, TOPIC_PREFIX \o <<"1", ".", "2">> >>
    /\ outline[1].val.topics[1].val.subtopics[1].val.points = << <<"P">> >>
    /\ outline[1].val.topics[2].val.subtopics = <<>>
    /\ current_subtopic = None

\* ---------------------------------------------------------------------- C20
\* C20: a Point line seen while the module, the topic or the subtopic
\* cursor is empty changes nothing: the tree and the three cursors are the
\* same after the line, no placeholder is made for it.
C20_PointWithoutCursorChangesNothing ==
    [][(AtLine("point")
          /\ (current_module = None \/ current_topic = None
                \/ current_subtopic = None))
         => UNCHANGED <<outline, current_module, current_topic,
                        current_subtopic>>]_vars

\* A file whose only line after the title is a point line: the line is
\* taken and the tree is still empty.
C20_Witness ==
    /\ pc = "parse"
    /\ lines = <<>>
    /\ Len(title_step(file).lines) = 1
    /\ LineKind(title_step(file).lines[1]) = "point"
    /\ outline = <<>>
    /\ current_module = None /\ current_topic = None /\ current_subtopic = None

\* ---------------------------------------------------------------------- C21
\* The name with a trailing " Fundamentals" removed.
WithoutFundamentals(name) ==
    IF EndsWith(name, FUNDAMENTALS)
    THEN SubSeq(name, 1, Len(name) - Len(FUNDAMENTALS)) ELSE name

\* The keys of the stated order: the exact title, "Course: name",
\* "Title: name", "Title Slide", the name without " Fundamentals".
StatedKeys(name) ==
    <<name, COURSE_KEY_PREFIX \o name, TITLE_KEY_PREFIX \o name,
      TITLE_SLIDE_KEY, WithoutFundamentals(name)>>

\* The notes the stated order gives the title slide.
StatedTitleNotes(name, notes) ==
    LET hit == FirstHit(StatedKeys(name), notes)
        like == FirstTitleLike(notes)
    IN  IF hit # 0 THEN Get(notes, StatedKeys(name)[hit])
        ELSE IF Len(notes) = 1 THEN notes[1].val
        ELSE IF like # 0 THEN notes[like].val
        ELSE welcome_notes(name)

\* C21: the notes of the title slide are those of the first step that hits:
\* the exact title, "Course: name", "Title: name", "Title Slide", the name
\* without " Fundamentals", the single entry of a one-entry map, the first
\* key that looks like a title key, the welcome text; no key of another
\* course is tried before the scan.
C21_TitleNotesFollowTheStatedOrder ==
    pc = "n_content" =>
        deck[1].notes = <<StatedTitleNotes(course_title, enhanced_notes)>>

\* ---------------------------------------------------------------------- C22
PromptsCallDone == pc \in {"s_prompts_parse", "s_notes_call", "s_notes_parse", "s_done"}

NotesCallDone ==
    /\ pc \in {"s_notes_parse", "s_done"}
    /\ notes_request(slides_info, 0, cur_dir) # <<>>

RequestsFor(what) == SelectSeq(requests, LAMBDA r : r.what = what)

Chunks == [i \in 1..Len(RequestsFor("images")) |-> RequestsFor("images")[i].slides]

CeilDiv(n, k) == (n + k - 1) \div k

ChunksCoverTheDeck ==
    /\ Len(Chunks) = CeilDiv(Len(slides_data), batch_size)
    /\ \A i \in 1..Len(Chunks) : Len(Chunks[i]) <= batch_size
    /\ Flatten(Chunks) = [i \in 1..Len(slides_data) |-> i]

C23_OneRequestPerMapAndOnePerChunk ==
    pc = "q_done" =>
        /\ Len(RequestsFor("prompts")) = 1
        /\ Len(RequestsFor("notes")) = 1
        /\ ChunksCoverTheDeck

\* ---------------------------------------------------------------------------
\* C24: a lookup never adds, removes or changes an entry of an artifact map,
\* so after any sequence of lookups the maps are those the batch built, and
\* two lookups of the same kind for the same title resolve to the same text,
\* misses included.
SameLookupSameText ==
    \A i, j \in 1..Len(lookups) :
        (lookups[i].by = lookups[j].by /\ lookups[i].title = lookups[j].title)
            => lookups[i].text = lookups[j].text

C24_LookupsLeaveTheMapsAlone ==
    /\ [][/\ prompt_cache' = prompt_cache
          /\ all_notes' = all_notes
          /\ enhanced_notes' = enhanced_notes]_vars
    /\ []SameLookupSameText

\* Two misses of get_enhanced_prompt for one title, in a cache that has
\* entries.
C24_Witness ==
    /\ Len(lookups) = 2
    /\ lookups[1] = lookups[2]
    /\ lookups[1].by = "get_enhanced_prompt"
    /\ ~HasKey(prompt_cache, lookups[1].title)
    /\ lookups[1].text = <<create_fallback_prompt(lookups[1].title)>>
    /\ prompt_cache # <<>>

\* ---------------------------------------------------------------------------
\* C25: in the exam and quiz parsers every non-blank line is appended, in
\* input order, to full_content of the module the most recent Module line
\* opened, whether or not it enters the tree, and to no module when none is
\* open; a module's full_content starts with its own Module line; no node
\* is made for a line that is not in the file.  The original statement has
\* the line appended verbatim; the code appends the line stripped of the
\* blanks around it.
FullContentOf(o, k) == Get(o, k).full_content

OtherModulesKept(k) ==
    /\ \A i \in 1..Len(outline) :
          outline[i].key # k => outline'[i] = outline[i]
    /\ \A i \in 1..Len(outline') :
          outline'[i].key # k => i <= Len(outline)

\* What one round of the loop does with full_content when text is what it
\* logs for the line.
LineLogged(text) ==
    IF module_match(Strip(Head(lines))).ok
    THEN /\ current_module' =
               MODULE_PREFIX \o module_match(Strip(Head(lines))).number
         /\ FullContentOf(outline', current_module') = <<text>>
         /\ OtherModulesKept(current_module')
    ELSE IF current_module = None
    THEN outline' = outline /\ current_module' = None
    ELSE /\ current_module' = current_module
         /\ FullContentOf(outline', current_module) =
               Append(FullContentOf(outline, current_module), text)
         /\ OtherModulesKept(current_module)

AtExamLine == pc = "x_parse" /\ lines # <<>> /\ Strip(Head(lines)) # <<>>

StartsWithOwnModuleLine(m) ==
    /\ m.val.full_content # <<>>
    /\ module_match(m.val.full_content[1]).ok
    /\ module_match(m.val.full_content[1]).number = m.val.module_number
    /\ m.key = MODULE_PREFIX \o m.val.module_number

InLog(m, k, key, prefix, title) ==
    \E i \in 1..Len(m.val.full_content) :
        LET pm == path_match(m.val.full_content[i], k)
        IN  pm.ok /\ key = prefix \o pm.number /\ title = Strip(pm.rest)

NoPlaceholderNodes ==
    \A i \in 1..Len(outline) :
        LET m == outline[i]
        IN  \A j \in 1..Len(m.val.topics) :
               LET t == m.val.topics[j]
               IN  /\ InLog(m, 2, t.key, TOPIC_PREFIX, t.val.title)
                   /\ \A k \in 1..Len(t.val.subtopics) :
                         InLog(m, 3, t.val.subtopics[k].key, SUBTOPIC_PREFIX,
                               t.val.subtopics[k].val.title)

ExamTreeIsFromTheLog ==
    pc \in {"x_parse", "x_parsed"} =>
        /\ \A i \in 1..Len(outline) : StartsWithOwnModuleLine(outline[i])
        /\ NoPlaceholderNodes

C25_Original_LinesLoggedVerbatim ==
    /\ [][AtExamLine => LineLogged(Head(lines))]_vars
    /\ []ExamTreeIsFromTheLog

C25_LinesLoggedStripped ==
    /\ [][AtExamLine => LineLogged(Strip(Head(lines)))]_vars
    /\ []ExamTreeIsFromTheLog

\* An orphan Topic line before any module was dropped; in the module an
\* orphan Subtopic line and a line of other text were logged and made no node.
C25_Witness ==
    /\ pc = "x_parsed"
    /\ Len(file) >= 2 /\ topic_match(file[2]).ok
    /\ \E i \in 1..Len(outline) :
          /\ outline[i].val.topics = <<>>
          /\ outline[i].val.full_content = <<X_M1, L_111D, X_NOTE>>

\* ---------------------------------------------------------------------------
\* C26: in every tree the parse returns, the number of each Topic is the
\* number of the Module that holds it plus one segment, and the number of
\* each Subtopic is the number of the Topic that holds it plus one segment.
ExtendsByOneSegment(child, parent) ==
    /\ LastDot(child) # 0
    /\ WithoutLastSegment(child) = parent
    /\ LastDot(child) < Len(child)

C26_ChildPathExtendsParentPath ==
    RETURNED =>
        \A i \in 1..Len(outline) :
            \A j \in 1..Len(outline[i].val.topics) :
                LET m == outline[i]
                    t == m.val.topics[j]
                IN  /\ ExtendsByOneSegment(NumberOfKey(t.key, TOPIC_PREFIX),
                                           NumberOfKey(m.key, MODULE_PREFIX))
                    /\ \A k \in 1..Len(t.val.subtopics) :
                          ExtendsByOneSegment(
                              NumberOfKey(t.val.subtopics[k].key, SUBTOPIC_PREFIX),
                              NumberOfKey(t.key, TOPIC_PREFIX))

\* ---------------------------------------------------------------------------
\* C27: parsing never discards a stored node: a Module, Topic, Subtopic or
\* Point that is in the tree is in it after every later line, with its title
\* and all its children, also when the line repeats a number; and the module
\* a Module line defines is the last in the processing order.
IsPrefixOf(a, b) == Len(a) <= Len(b) /\ SubSeq(b, 1, Len(a)) = a

SubtopicsKept(old, new) ==
    \A k \in 1..Len(old) :
        /\ HasKey(new, old[k].key)
        /\ Get(new, old[k].key).title = old[k].val.title
        /\ IsPrefixOf(old[k].val.points, Get(new, old[k].key).points)

TopicsKept(old, new) ==
    \A j \in 1..Len(old) :
        /\ HasKey(new, old[j].key)
        /\ Get(new, old[j].key).title = old[j].val.title
        /\ SubtopicsKept(old[j].val.subtopics, Get(new, old[j].key).subtopics)

TreeKept(old, new) ==
    \A i \in 1..Len(old) :
        /\ HasKey(new, old[i].key)
        /\ Get(new, old[i].key).title = old[i].val.title
        /\ TopicsKept(old[i].val.topics, Get(new, old[i].key).topics)

C27_NoStoredNodeIsDiscarded ==
    [][(pc = "parse" /\ lines # <<>>) =>
         /\ TreeKept(outline, outline')
         /\ LineKind(Head(lines)) = "module" =>
               outline'[Len(outline')].key = current_module']_vars

\* ---------------------------------------------------------------------------
\* C28: the image file name and the snapshot file name of every slide carry
\* the slide's own 1-based position in emission order, so no two slides of
\* one deck share a file, also when two slides have the same title and
\* content.
CarriesPosition(name, i, width) ==
    StartsWith(name, ZeroPad(i, width) \o <<"_">>)

C28_FileNamesCarryOwnPosition ==
    pc = "snapshots" =>
        /\ \A i \in 1..Len(slides_data) :
              /\ CarriesPosition(ImageNames[i], i, 2)
              /\ CarriesPosition(SnapshotNames[i + 1], i, 3)
        /\ \A i, j \in 1..Len(slides_data) :
              i # j => /\ ImageNames[i] # ImageNames[j]
                       /\ SnapshotNames[i + 1] # SnapshotNames[j + 1]

\* ---------------------------------------------------------------------------
\* C29: when two slides of a deck have the same title, the title-to-image
\* map and the title-to-snapshot map hold one entry for the title, the
\* artifact of the later slide, and a slide whose title no other slide has
\* keeps its own artifact: the slide that is the last with its title and
\* whose image was generated is mapped to its own image, and an entry of
\* the snapshot map is the snapshot of the last slide with that title.
LastWithTitle(i) ==
    \A j \in (i + 1)..Len(slides_data) :
        slides_data[j].title # slides_data[i].title

C29_LaterSlideWinsTheTitle ==
    pc = "i_snapshots" =>
        /\ DistinctKeys(image_paths_by_title) /\ DistinctKeys(snapshot_paths)
        /\ \A i \in 1..Len(slides_data) :
              (LastWithTitle(i) /\ slides_data[i].title # course_title) =>
                  /\ i \notin failed =>
                        /\ HasKey(image_paths_by_title, slides_data[i].title)
                        /\ Get(image_paths_by_title, slides_data[i].title)
                             = image_path_of(slides_data, i)
                  /\ HasKey(snapshot_paths, slides_data[i].title) =>
                        Get(snapshot_paths, slides_data[i].title)
                          = snapshot_filename(all_slides_data(slides_data), i)

\* ---------------------------------------------------------------------------
\* C30: in the video stage the narration paired with the i-th snapshot is
\* the notes entry generated for the slide the snapshot shows, empty only
\* when the slide has no entry; also without a title snapshot or a title
\* entry, with a module that has no topics, and with a deck cut by
\* max_slides.
\* The title of the notes request entry made for a content slide.
NotesKeyOfSlide(slide) ==
    IF slide.type = "module"
    THEN SubSeq(slide.title, Len(MODULE_PREFIX) + 1, Len(slide.title))
    ELSE slide.title

EntryOrEmpty(notes, key) == IF HasKey(notes, key) THEN Get(notes, key) ELSE <<>>

\* The narration of the slide a snapshot file shows.
NarrationFor(name) ==
    IF name = TITLE_SNAPSHOT
    THEN IF cur_dir = <<>> THEN <<>>
         ELSE EntryOrEmpty(all_notes, COURSE_KEY_PREFIX \o course_name_of(cur_dir))
    ELSE LET p == CHOOSE i \in 1..Len(slides_data) :
                     snapshot_filename(all_slides_data(slides_data), i) = name
         IN  EntryOrEmpty(all_notes, NotesKeyOfSlide(slides_data[p]))

C30_NarrationIsTheSlidesOwnNotes ==
    pc = "v_done" =>
        \A i \in 1..Len(matches) :
            matches[i].note = NarrationFor(matches[i].slide)

====
